---- MODULE Spec2Model ----
(***************************************************************************)
(* Verification model of the zypherus-backend transcription core:          *)
(*   - the sliding-window chunker of the audio-utils library               *)
(*     (processSamples and its helpers),                                   *)
(*   - the incremental text extractor and the sentence/cleanup stage of    *)
(*     the STT worker (extractNewText, dedupAppend, splitSentences,        *)
(*     cleanupText),                                                       *)
(*   - the per-track pipeline of the STT worker with its process-global    *)
(*     state (handleAudioFrame, processChunk, transcribeChunk, the room    *)
(*     event handlers).                                                    *)
(* Three specifications share the module: SpecWin (the window library,     *)
(* statement by statement), SpecExt (the pure text functions applied to    *)
(* bounded inputs) and SpecPipe (the worker).                              *)
(***************************************************************************)
EXTENDS Integers, Sequences, FiniteSets, TLC

VARIABLES
    \* ---- window library (SpecWin)
    config,        \* SlidingWindowConfig of the call under way
    win,           \* the SlidingWindowState, the heap of typed arrays, and the
                   \* locals of the processSamples call under way
    emitted,       \* history: one record per window closed, in order
    calls,         \* history: number of processSamples calls started
    callStart,     \* history: cursor and input length at the start of the call
    fed,           \* history: number of samples handed to processSamples so far
    \* ---- pure text functions (SpecExt)
    fn,            \* the call under test: the function's name and its arguments
    result,        \* [done, value]: what the call returned, once it has
    \* ---- STT worker (SpecPipe)
    trackContexts, \* the Map trackSid -> TrackContext (0: no entry)
    contexts,      \* every TrackContext created so far, by subscription
    handlers,      \* per subscription: where its stream loop stands
    globals,       \* lastBroadcastedText, sentenceBuffer, sentenceConfidence,
                   \* transcriptHistory, totalChunksProcessed, totalChunksSkipped
    sent,          \* history: transcript envelopes handed to the room, in order
    closed,        \* history: per subscription, startMs of each window closed
    sttLog,        \* history: the STT calls made, in order
    historyLog,    \* history: the windows whose text was appended to
                   \* lastBroadcastedText (line 1060), in order
    statusLog,     \* history: the calls of broadcastStatus with level info
    room,          \* connected; up: the room service accepts sendData; and
                   \* history: the inputs taken so far
    \* ---- dev-server rate limiter (SpecRate)
    rateLimitStore, \* the Map identifier -> RateLimitEntry (NoEntry: none)
    clock,         \* Date.now()
    served,        \* history: the requests answered, in order
    \* ---- dev-server API key authentication (SpecAuth)
    auth,          \* the api_keys table, apiKeyCache, the calls of apiKeyAuth
                   \* under way, and history: the answers given
    \* ---- SDK (SpecClient, SpecAccum, SpecEmit)
    client,        \* a ZypherusClient: its fields, the calls under way, and
                   \* every Room and microphone track it created
    accumulator,   \* a TranscriptAccumulator: finalSegments, pendingSegments
    emitter        \* a TypedEventEmitter: its listeners and the emit calls
                   \* under way

winVars == <<config, win, emitted, calls, callStart, fed>>
extVars == <<fn, result>>
pipeVars ==
    <<trackContexts, contexts, handlers, globals, sent, closed, sttLog, historyLog,
      statusLog, room>>

rateVars == <<rateLimitStore, clock, served>>
appVars == <<auth, client, accumulator, emitter>>
vars == <<winVars, extVars, pipeVars, rateVars, appVars>>

(***************************************************************************)
(* Bounds of the model.                                                    *)
(***************************************************************************)
MaxFrameLen == 6     \* longest input of one processSamples call
MaxCalls == 2        \* processSamples calls per behaviour
MaxWords == 3        \* words of a text drawn from the vocabulary

Max(a, b) == IF a >= b THEN a ELSE b
Min(a, b) == IF a <= b THEN a ELSE b

(***************************************************************************)
(* The window library.  Typed arrays live in a heap (a sequence of sample  *)
(* sequences); a value of type Int16Array or Uint8Array is an index into   *)
(* it, so that sharing of storage is visible.  heap[RingId] is             *)
(* state.buffer.                                                           *)
(***************************************************************************)
RingId == 1

\* The configurations explored: [sampleRate, channels, windowMs, strideMs].
\* They cover stride < window, stride = window, stride > window and rates for
\* which sampleRate * ms / 1000 is not an integer.
WinConfigs ==
    { [sampleRate |-> 1000, channels |-> 1, windowMs |-> 3, strideMs |-> 1],
      [sampleRate |-> 1000, channels |-> 1, windowMs |-> 3, strideMs |-> 2],
      [sampleRate |-> 1000, channels |-> 1, windowMs |-> 2, strideMs |-> 2],
      [sampleRate |-> 1000, channels |-> 1, windowMs |-> 2, strideMs |-> 3],
      [sampleRate |-> 2000, channels |-> 1, windowMs |-> 2, strideMs |-> 1],
      [sampleRate |-> 1500, channels |-> 1, windowMs |-> 3, strideMs |-> 1] }

calculateSamples(sampleRate, durationMs, channels) ==
    (sampleRate * durationMs * channels) \div 1000

windowSamples(cfg) == calculateSamples(cfg.sampleRate, cfg.windowMs, cfg.channels)
strideSamples(cfg) == calculateSamples(cfg.sampleRate, cfg.strideMs, cfg.channels)

createEmptyState(capacity) ==
    [heap |-> << [i \in 1..capacity |-> 0] >>, cursor |-> 0]

\* state.buffer.set(samples, state.cursor); state.cursor += samples.length
appendSamples(w, slice) ==
    IF Len(slice) > Len(w.heap[RingId]) - w.cursor
    THEN [w EXCEPT !.pc = "throw", !.error = "Sliding window overflow"]
    ELSE [w EXCEPT
            !.heap[RingId] = [i \in 1..Len(@) |->
                IF i > w.cursor /\ i <= w.cursor + Len(slice)
                THEN slice[i - w.cursor] ELSE @[i]],
            !.cursor = @ + Len(slice)]

\* hasWindow testing for a cursor beyond the capacity.
hasWindowBeyond(w) == w.cursor > Len(w.heap[RingId])

hasWindow(w) == w.cursor = Len(w.heap[RingId])

\* shiftWindow with the cursor set to the stride instead of the kept length.
shiftWindowCursorIsStride(w, stride) ==
    LET n == Len(w.heap[RingId])
        remaining == n - stride
    IN  IF remaining <= 0
        THEN [w EXCEPT !.cursor = 0]
        ELSE [w EXCEPT
                !.heap[RingId] = [i \in 1..n |->
                    IF i <= remaining THEN @[i + stride] ELSE @[i]],
                !.cursor = stride]

\* remaining <= 0: only the cursor is reset; otherwise copyWithin(0, stride, N)
\* shiftWindow without the copyWithin of line 93.
shiftWindowKeepingRing(w, stride) ==
    LET remaining == Len(w.heap[RingId]) - stride
    IN  IF remaining <= 0 THEN [w EXCEPT !.cursor = 0]
        ELSE [w EXCEPT !.cursor = remaining]

shiftWindow(w, stride) ==
    LET n == Len(w.heap[RingId])
        remaining == n - stride
    IN  IF remaining <= 0
        THEN [w EXCEPT !.cursor = 0]
        ELSE [w EXCEPT
                !.heap[RingId] = [i \in 1..n |->
                    IF i <= remaining THEN @[i + stride] ELSE @[i]],
                !.cursor = remaining]

\* buffer.slice(): a new array holding a copy; its id is Len of the new heap
cloneSamples(heap, id) == Append(heap, heap[id])

\* new Int16Array(payload) copies once more; buildChunk wraps that copy's
\* storage in a Uint8Array view, so the chunk's payload is the copy's id
buildChunk(samplesId, metadata) ==
    [metadata |-> metadata, payload |-> samplesId]

\* What a chunk would refer to if the ring itself were wrapped (no copy).
ChunkStorageAliased(heap) == [heap |-> heap, id |-> RingId]

\* The storage the emitted chunk ends up referring to, after cloneSamples
\* (line 276/305) and the worker's chunkFactory: a fresh copy of the ring.
ChunkStorage(heap) ==
    LET h1 == cloneSamples(heap, RingId)
        h2 == Append(h1, h1[Len(h1)])        \* new Int16Array(payload)
    IN  [heap |-> h2, id |-> Len(h2)]

chunkMeta(w, cfg) ==
    [startMs |-> w.currentTimestamp,
     endMs |-> w.currentTimestamp + cfg.windowMs,
     sampleRate |-> cfg.sampleRate,
     channels |-> cfg.channels]

\* EmitWindow without the advance of currentTimestamp.
EmitWindowNoAdvance(w, cfg) ==
    LET st == ChunkStorage(w.heap)
        chunk == buildChunk(st.id, chunkMeta(w, cfg))
        w1 == [w EXCEPT !.heap = st.heap, !.outputs = Append(@, chunk)]
    IN  shiftWindow(w1, strideSamples(cfg))

\* Lines 276-294 and 305-323: copy the ring into a chunk, push it, slide.
EmitWindow(w, cfg) ==
    LET st == ChunkStorage(w.heap)
        chunk == buildChunk(st.id, chunkMeta(w, cfg))
        w1 == [w EXCEPT !.heap = st.heap, !.outputs = Append(@, chunk)]
        w2 == shiftWindow(w1, strideSamples(cfg))
    IN  [w2 EXCEPT !.currentTimestamp = @ + cfg.strideMs]

\* Entry of processSamples without the capacity check of lines 264-266.
EnterProcessSamplesUnchecked(w, samples, cfg, timestampMs) ==
    [w EXCEPT !.pc = "loop", !.error = "", !.samples = samples, !.offset = 0,
              !.currentTimestamp = timestampMs, !.outputs = << >>]

\* Entry of processSamples: the capacity check and the loop's locals.
EnterProcessSamples(w, samples, cfg, timestampMs) ==
    IF Len(w.heap[RingId]) # windowSamples(cfg)
    THEN [w EXCEPT !.pc = "throw", !.error = "Sliding window state capacity mismatch",
                   !.samples = samples, !.outputs = << >>]
    ELSE [w EXCEPT !.pc = "loop", !.error = "", !.samples = samples, !.offset = 0,
                   !.currentTimestamp = timestampMs, !.outputs = << >>]

\* LoopStep taking all the remaining samples, not min(available, remaining).
LoopStepTakingAll(w, cfg) ==
    IF w.pc = "loop"
    THEN IF w.offset < Len(w.samples)
         THEN LET available == Len(w.heap[RingId]) - w.cursor
              IN  IF available = 0
                  THEN EmitWindow(w, cfg)
                  ELSE LET take == Len(w.samples) - w.offset
                           slice == SubSeq(w.samples, w.offset + 1, w.offset + take)
                           w1 == appendSamples(w, slice)
                       IN  IF w1.pc = "throw" THEN w1
                           ELSE [w1 EXCEPT !.offset = @ + take, !.pc = "inner"]
         ELSE [w EXCEPT !.pc = "return"]
    ELSE IF w.pc = "inner"
    THEN IF hasWindow(w) THEN EmitWindow(w, cfg) ELSE [w EXCEPT !.pc = "loop"]
    ELSE w

\* One pass of the control of processSamples.
\*   "loop"  : the test of the outer while, then the flush branch or the append
\*   "inner" : the test of while (hasWindow(state)), then one emission
LoopStep(w, cfg) ==
    IF w.pc = "loop"
    THEN IF w.offset < Len(w.samples)
         THEN LET available == Len(w.heap[RingId]) - w.cursor
              IN  IF available = 0
                  THEN EmitWindow(w, cfg)
                  ELSE LET remaining == Len(w.samples) - w.offset
                           take == Min(available, remaining)
                           slice == SubSeq(w.samples, w.offset + 1, w.offset + take)
                           w1 == appendSamples(w, slice)
                       IN  IF w1.pc = "throw" THEN w1
                           ELSE [w1 EXCEPT !.offset = @ + take, !.pc = "inner"]
         ELSE [w EXCEPT !.pc = "return"]
    ELSE IF w.pc = "inner"
    THEN IF hasWindow(w) THEN EmitWindow(w, cfg) ELSE [w EXCEPT !.pc = "loop"]
    ELSE w

RECURSIVE RunLoop(_, _)
RunLoop(w, cfg) ==
    IF w.pc \in {"loop", "inner"} THEN RunLoop(LoopStep(w, cfg), cfg) ELSE w

\* processSamples as one call: the state it leaves and the chunks it returns.
processSamples(w, samples, cfg, timestampMs) ==
    RunLoop(EnterProcessSamples(w, samples, cfg, timestampMs), cfg)

\* A state with no processSamples call under way.
IdleWin(cfg) ==
    LET s == createEmptyState(windowSamples(cfg))
    IN  [heap |-> s.heap, cursor |-> s.cursor, samples |-> << >>, offset |-> 0,
         currentTimestamp |-> 0, outputs |-> << >>, pc |-> "idle", error |-> ""]


(***************************************************************************)
(* Text.  A string is a sequence of one-character strings; the operators   *)
(* below are the JavaScript string methods the worker uses.                *)
(***************************************************************************)
UpperChars ==
    <<"A", "B", "C", "D", "E", "F", "G", "H", "I", "J", "K", "L", "M",
      "N", "O", "P", "Q", "R", "S", "T", "U", "V", "W", "X", "Y", "Z">>
LowerChars ==
    <<"a", "b", "c", "d", "e", "f", "g", "h", "i", "j", "k", "l", "m",
      "n", "o", "p", "q", "r", "s", "t", "u", "v", "w", "x", "y", "z">>

IsSpace(c) == c \in {" ", "\t", "\n"}          \* the class \s
IsUpper(c) == \E i \in 1..Len(UpperChars) : UpperChars[i] = c
IsTerminator(c) == c \in {".", "!", "?"}       \* the class [.!?]

lowerChar(c) ==
    IF IsUpper(c)
    THEN LowerChars[CHOOSE i \in 1..Len(UpperChars) : UpperChars[i] = c]
    ELSE c

toLowerCase(s) == [i \in 1..Len(s) |-> lowerChar(s[i])]

trim(s) ==
    IF \A i \in 1..Len(s) : IsSpace(s[i]) THEN << >>
    ELSE SubSeq(s,
             CHOOSE i \in 1..Len(s) :
                 ~IsSpace(s[i]) /\ \A j \in 1..(i - 1) : IsSpace(s[j]),
             CHOOSE i \in 1..Len(s) :
                 ~IsSpace(s[i]) /\ \A j \in (i + 1)..Len(s) : IsSpace(s[j]))

\* A replace(regex, ...) that rewrites a text character by character:
\* pieces[i] is what takes the place of s[i], a text of zero, one or two
\* characters.  The result is the pieces put together.
Rewritten(pieces) ==
    LET slots == [k \in 1..(2 * Len(pieces)) |->
                     LET piece == pieces[(k + 1) \div 2]
                         at == 2 - (k % 2)
                     IN  IF at <= Len(piece) THEN <<piece[at]>> ELSE << >>]
        filled == SelectSeq(slots, LAMBDA slot : slot # << >>)
    IN  [k \in 1..Len(filled) |-> filled[k][1]]

\* s.replace(/\s+/g, ' '): the first character of a run of whitespace becomes
\* a space, the others go
collapseWhitespace(s) ==
    Rewritten([i \in 1..Len(s) |->
                  IF IsSpace(s[i])
                  THEN IF i > 1 /\ IsSpace(s[i - 1]) THEN << >> ELSE <<" ">>
                  ELSE <<s[i]>>])

\* s.split(' '): the pieces between single spaces ("" gives one empty piece)
split(s) ==
    LET spaces == {i \in 1..Len(s) : s[i] = " "}
        \* the k-th piece lies between the (k-1)-th and the k-th space
        edge == [k \in 0..(Cardinality(spaces) + 1) |->
                    IF k = 0 THEN 0
                    ELSE IF k > Cardinality(spaces) THEN Len(s) + 1
                    ELSE CHOOSE i \in spaces :
                             Cardinality({j \in spaces : j < i}) = k - 1]
    IN  [k \in 1..(Cardinality(spaces) + 1) |->
            SubSeq(s, edge[k - 1] + 1, edge[k] - 1)]

\* s.split(/\s+/)
splitWhitespace(s) == split(collapseWhitespace(s))

\* words.join(' ')
RECURSIVE joinFrom(_, _, _)
joinFrom(words, i, acc) ==
    IF i > Len(words) THEN acc
    ELSE joinFrom(words, i + 1,
                  IF i = 1 THEN words[1] ELSE acc \o <<" ">> \o words[i])

join(words) == joinFrom(words, 1, << >>)

\* s.slice(k), s.slice(0, k) for k >= 0 and s.slice(-k) for k >= 1
sliceFrom(s, k) == SubSeq(s, k + 1, Len(s))
sliceTo(s, k) == SubSeq(s, 1, Min(k, Len(s)))
sliceLast(s, k) == SubSeq(s, Max(1, Len(s) - k + 1), Len(s))

startsWith(s, prefix) ==
    Len(prefix) <= Len(s) /\ SubSeq(s, 1, Len(prefix)) = prefix

includes(s, sub) ==
    \E i \in 0..(Len(s) - Len(sub)) : SubSeq(s, i + 1, i + Len(sub)) = sub

\* s.search(/\s/): 0-based index of the first whitespace, -1 if none
searchSpace(s) ==
    LET hits == {i \in 1..Len(s) : IsSpace(s[i])}
    IN  IF hits = {} THEN -1 ELSE (CHOOSE i \in hits : \A j \in hits : i <= j) - 1

\* trim().toLowerCase().replace(/\s+/g, ' ')
normalize(s) == collapseWhitespace(toLowerCase(trim(s)))

(***************************************************************************)
(* extractNewText and its parts.                                           *)
(***************************************************************************)
MaxWordOverlap == 50      \* Math.min(prevWords.length, currWords.length, 50)
MinWordOverlap == 3       \* for (...; len >= 3; ...)
CharTail == 200           \* prev.slice(-200), curr.slice(0, 200)
MinCharOverlap == 20      \* for (...; len >= 20; ...)

\* The loop of lines 744-751, from len down to MinWordOverlap
RECURSIVE wordOverlapFrom(_, _, _, _)
wordOverlapFrom(prevWords, currWords, len, least) ==
    IF len < least THEN 0
    ELSE IF join(sliceLast(prevWords, len)) = join(sliceTo(currWords, len))
         THEN len
         ELSE wordOverlapFrom(prevWords, currWords, len - 1, least)

\* bestOverlap with the loop stopping at 4 words.
bestOverlapDownToFour(prevWords, currWords) ==
    wordOverlapFrom(prevWords, currWords,
                    Min(Min(Len(prevWords), Len(currWords)), MaxWordOverlap), 4)

bestOverlap(prevWords, currWords) ==
    wordOverlapFrom(prevWords, currWords,
                    Min(Min(Len(prevWords), Len(currWords)), MaxWordOverlap),
                    MinWordOverlap)

\* The loop of lines 773-778, from len down to MinCharOverlap: the first
\* length it finds is the largest that fits
charOverlapFrom(prevTail, currHead, len) ==
    LET fits == {n \in MinCharOverlap..len :
                    sliceLast(prevTail, n) = sliceTo(currHead, n)}
    IN  IF fits = {} THEN 0 ELSE CHOOSE n \in fits : \A m \in fits : m <= n

charOverlap(prev, curr) ==
    LET prevTail == sliceLast(prev, CharTail)
        currHead == sliceTo(curr, CharTail)
    IN  charOverlapFrom(prevTail, currHead, Min(Len(prevTail), Len(currHead)))

Range(seq) == {seq[i] : i \in 1..Len(seq)}

\* redundancyRatio > 0.7 && currWords.length <= prevWords.length
\* (redundantCount / size > 0.7 as 10 * redundantCount > 7 * size)
highRedundancy(prevWords, currWords) ==
    LET newWordsSet == Range(currWords)
        prevWordsSet == Range(prevWords)
        redundantCount == Cardinality(newWordsSet \cap prevWordsSet)
    IN  /\ 10 * redundantCount > 7 * Cardinality(newWordsSet)
        /\ Len(currWords) <= Len(prevWords)

extractNewText(alreadyBroadcasted, newTranscription) ==
    LET prev == normalize(alreadyBroadcasted)
        curr == normalize(newTranscription)
        original == trim(newTranscription)
        prevWords == split(prev)
        currWords == split(curr)
        originalCurrWords == split(collapseWhitespace(original))
        best == bestOverlap(prevWords, currWords)
        chars == charOverlap(prev, curr)
    IN  IF prev = << >> THEN original
        ELSE IF curr = << >> THEN << >>
        ELSE IF includes(prev, curr) THEN << >>
        ELSE IF startsWith(curr, prev) THEN trim(sliceFrom(original, Len(prev)))
        ELSE IF best >= MinWordOverlap
             THEN trim(join(sliceFrom(originalCurrWords, best)))
        ELSE IF chars >= MinCharOverlap
             THEN LET afterOverlap == sliceFrom(original, chars)
                      wordBoundary == searchSpace(afterOverlap)
                  IN  IF wordBoundary >= 0
                      THEN trim(sliceFrom(afterOverlap, wordBoundary))
                      ELSE trim(afterOverlap)
        ELSE IF highRedundancy(prevWords, currWords) THEN << >>
        ELSE original

(***************************************************************************)
(* dedupAppend, splitSentences, cleanupText and the confidence helpers.    *)
(***************************************************************************)
\* The loop of lines 834-843: the longest overlap of i words, i >= 2, or 0
RECURSIVE dedupOverlapFrom(_, _, _)
dedupOverlapFrom(bufferWords, chunkWords, i) ==
    IF i < 2 THEN 0
    ELSE IF toLowerCase(join(sliceLast(bufferWords, i)))
                = toLowerCase(join(sliceTo(chunkWords, i)))
         THEN i
         ELSE dedupOverlapFrom(bufferWords, chunkWords, i - 1)

dedupAppend(buffer, newChunk) ==
    IF buffer = << >> THEN newChunk
    ELSE IF newChunk = << >> THEN buffer
    ELSE LET bufferWords == splitWhitespace(trim(buffer))
             chunkWords == splitWhitespace(trim(newChunk))
             maxOverlap == Min(Min(Len(bufferWords), Len(chunkWords)), 20)
             i == dedupOverlapFrom(bufferWords, chunkWords, maxOverlap)
         IN  IF i >= 2
             THEN LET remainingChunk == join(sliceFrom(chunkWords, i))
                  IN  buffer \o (IF remainingChunk # << >>
                                 THEN <<" ">> \o remainingChunk ELSE << >>)
             ELSE buffer \o <<" ">> \o newChunk

\* text.match(/[^.!?]+[.!?]+(?=\s|$)/g), scanning from position p: a match
\* starts at p when p is no terminator and the first run of terminators after
\* p is followed by whitespace or the end of the text; the scan resumes after
\* the match, or one position on when there is none at p.
RECURSIVE sentenceMatches(_, _, _)
sentenceMatches(text, p, acc) ==
    IF p > Len(text) THEN acc
    ELSE LET terms == {i \in p..Len(text) : IsTerminator(text[i])}
         IN  IF terms = {} THEN acc
             ELSE LET q == CHOOSE i \in terms : \A j \in terms : i <= j
                      after == {i \in q..Len(text) : ~IsTerminator(text[i])}
                      r == IF after = {} THEN Len(text)
                           ELSE (CHOOSE i \in after : \A j \in after : i <= j) - 1
                  IN  IF q > p /\ (r = Len(text) \/ IsSpace(text[r + 1]))
                      THEN sentenceMatches(text, r + 1, Append(acc, SubSeq(text, p, r)))
                      ELSE sentenceMatches(text, p + 1, acc)

splitSentences(text) ==
    LET matches == sentenceMatches(text, 1, << >>)
    IN  IF text = << >> THEN [completeSentences |-> << >>, remainder |-> << >>]
        ELSE IF matches = << >>
        THEN [completeSentences |-> << >>, remainder |-> trim(text)]
        ELSE LET completeSentences == trim(join(matches))
             IN  [completeSentences |-> completeSentences,
                  remainder |-> trim(sliceFrom(text, Len(completeSentences)))]

(***************************************************************************)
(* Confidences are numbers of 1/ConfScale: 1 is ConfScale.  The model      *)
(* draws STT confidences whose blends stay whole multiples of 1/ConfScale. *)
(***************************************************************************)
ConfScale == 2 ^ 10
ConfHalf == ConfScale \div 2            \* segments[i].confidence ?? 0.5
ConfidenceThresholdPct == 45            \* STT_CONFIDENCE_THRESHOLD, in percent

\* The loop of lines 941-951, from the last segment backwards
RECURSIVE confidenceFrom(_, _, _, _, _)
confidenceFrom(segments, i, remaining, weighted, total) ==
    IF i < 1 \/ remaining <= 0
    THEN [weighted |-> weighted, total |-> total]
    ELSE LET segmentText == trim(segments[i].text)
         IN  IF segmentText = << >>
             THEN confidenceFrom(segments, i - 1, remaining, weighted, total)
             ELSE LET len == Min(Len(segmentText), remaining)
                      weight == Max(1, len)
                  IN  confidenceFrom(segments, i - 1, remaining - len,
                                     weighted + segments[i].confidence * weight,
                                     total + weight)

\* -1 stands for undefined
computeConfidenceForText(segments, text) ==
    LET target == trim(text)
        sums == confidenceFrom(segments, Len(segments), Len(target), 0, 0)
    IN  IF Len(segments) = 0 \/ target = << >> \/ sums.total = 0 THEN -1
        ELSE sums.weighted \div sums.total

\* Math.max(0, Math.min(1, cur * 0.5 + incoming * 0.5))
blendConfidence(current, incoming) ==
    Max(0, Min(ConfScale, (current + incoming) \div 2))

\* The loop of lines 889-910: drop the second copy of a phrase of 10 to 3
\* words that is repeated at once, compared without case
RECURSIVE repeatLenFrom(_, _, _)
repeatLenFrom(words, i, phraseLen) ==
    IF phraseLen < 3 THEN 0
    ELSE IF /\ i + phraseLen * 2 <= Len(words)
            /\ toLowerCase(join(SubSeq(words, i + 1, i + phraseLen)))
                 = toLowerCase(join(SubSeq(words, i + phraseLen + 1, i + phraseLen * 2)))
         THEN phraseLen
         ELSE repeatLenFrom(words, i, phraseLen - 1)

RECURSIVE dropRepeatsFrom(_, _, _)
dropRepeatsFrom(words, i, acc) ==
    IF i >= Len(words) THEN acc
    ELSE LET phraseLen == repeatLenFrom(words, i, Min(10, Len(words) - i))
         IN  IF phraseLen > 0
             THEN dropRepeatsFrom(words, i + phraseLen * 2,
                                  acc \o SubSeq(words, i + 1, i + phraseLen))
             ELSE dropRepeatsFrom(words, i + 1, Append(acc, words[i + 1]))

\* replace(/([.!?])\1+/g, ''): the doubled marks go altogether
squeezePunctuationAway(s) ==
    Rewritten([i \in 1..Len(s) |->
                  IF IsTerminator(s[i]) /\ ((i > 1 /\ s[i - 1] = s[i]) \/
                                            (i < Len(s) /\ s[i + 1] = s[i]))
                  THEN << >> ELSE <<s[i]>>])

\* replace(/([.!?])\1+/g, '$1'): of a run of one mark the first stays
squeezePunctuation(s) ==
    Rewritten([i \in 1..Len(s) |->
                  IF IsTerminator(s[i]) /\ i > 1 /\ s[i - 1] = s[i]
                  THEN << >> ELSE <<s[i]>>])

\* replace(/\s+([.!?,;:])/g, '$1'): a run of whitespace goes when a
\* punctuation mark follows it
dropSpaceBeforePunctuation(s) ==
    Rewritten([i \in 1..Len(s) |->
                  IF IsSpace(s[i])
                  THEN LET rest == {j \in i..Len(s) : ~IsSpace(s[j])}
                           k == IF rest = {} THEN Len(s) + 1
                                ELSE CHOOSE j \in rest : \A m \in rest : j <= m
                       IN  IF k <= Len(s) /\ s[k] \in {".", "!", "?", ",", ";", ":"}
                           THEN << >> ELSE <<s[i]>>
                  ELSE <<s[i]>>])

\* replace(/([.!?])([A-Z])/g, '$1 $2')
spaceAfterSentence(s) ==
    Rewritten([i \in 1..Len(s) |->
                  IF IsUpper(s[i]) /\ i > 1 /\ IsTerminator(s[i - 1])
                  THEN <<" ", s[i]>> ELSE <<s[i]>>])

cleanupText(text, segments) ==
    LET normalized == trim(collapseWhitespace(text))
        confidence == computeConfidenceForText(segments, normalized)
        effectiveConfidence == IF confidence = -1 THEN ConfScale ELSE confidence
        deduped == IF 2 * effectiveConfidence >= ConfScale
                   THEN join(dropRepeatsFrom(split(normalized), 0, << >>))
                   ELSE normalized
        squeezed == squeezePunctuation(deduped)
        tightened == dropSpaceBeforePunctuation(squeezed)
        spaced == spaceAfterSentence(tightened)
    IN  IF text = << >> THEN << >> ELSE trim(spaced)

(***************************************************************************)
(* Texts.                                                                  *)
(***************************************************************************)
\* "the"
W_the ==
    <<"t", "h", "e">>

\* "The"
W_The ==
    <<"T", "h", "e">>

\* "examination."
W_examination ==
    <<"e", "x", "a", "m", "i", "n", "a", "t", "i", "o", "n", ".">>

\* "the quick brown fox"
T_quickFox ==
    <<"t", "h", "e", " ", "q", "u", "i", "c", "k", " ", "b", "r", "o", "w",
      "n", " ", "f", "o", "x">>

\* "The quick brown fox jumps over"
T_quickFoxJumps ==
    <<"T", "h", "e", " ", "q", "u", "i", "c", "k", " ", "b", "r", "o", "w",
      "n", " ", "f", "o", "x", " ", "j", "u", "m", "p", "s", " ", "o", "v",
      "e", "r">>

\* "jumps over"
T_jumpsOver ==
    <<"j", "u", "m", "p", "s", " ", "o", "v", "e", "r">>

\* "over the lazy dog and"
T_lazyDog ==
    <<"o", "v", "e", "r", " ", "t", "h", "e", " ", "l", "a", "z", "y", " ",
      "d", "o", "g", " ", "a", "n", "d">>

\* "the lazy dog and then it rained."
T_lazyDogRained ==
    <<"t", "h", "e", " ", "l", "a", "z", "y", " ", "d", "o", "g", " ", "a",
      "n", "d", " ", "t", "h", "e", "n", " ", "i", "t", " ", "r", "a", "i",
      "n", "e", "d", ".">>

\* "then it rained."
T_thenItRained ==
    <<"t", "h", "e", "n", " ", "i", "t", " ", "r", "a", "i", "n", "e", "d",
      ".">>

\* "we need to measure the pressure"
T_measurePressure ==
    <<"w", "e", " ", "n", "e", "e", "d", " ", "t", "o", " ", "m", "e", "a",
      "s", "u", "r", "e", " ", "t", "h", "e", " ", "p", "r", "e", "s", "s",
      "u", "r", "e">>

\* "we need the pressure"
T_needPressure ==
    <<"w", "e", " ", "n", "e", "e", "d", " ", "t", "h", "e", " ", "p", "r",
      "e", "s", "s", "u", "r", "e">>

\* "the unremarkable examination"
T_unremarkableExam ==
    <<"t", "h", "e", " ", "u", "n", "r", "e", "m", "a", "r", "k", "a", "b",
      "l", "e", " ", "e", "x", "a", "m", "i", "n", "a", "t", "i", "o", "n">>

\* "remarkable examination today"
T_remarkableExam ==
    <<"r", "e", "m", "a", "r", "k", "a", "b", "l", "e", " ", "e", "x", "a",
      "m", "i", "n", "a", "t", "i", "o", "n", " ", "t", "o", "d", "a", "y">>

\* "today"
T_today ==
    <<"t", "o", "d", "a", "y">>

\* "chest examination unremark"
T_examUnremark ==
    <<"c", "h", "e", "s", "t", " ", "e", "x", "a", "m", "i", "n", "a", "t",
      "i", "o", "n", " ", "u", "n", "r", "e", "m", "a", "r", "k">>

\* "examination unremarkable"
T_examUnremarkable ==
    <<"e", "x", "a", "m", "i", "n", "a", "t", "i", "o", "n", " ", "u", "n",
      "r", "e", "m", "a", "r", "k", "a", "b", "l", "e">>

\* "able"
T_able ==
    <<"a", "b", "l", "e">>

\* "the nodule"
T_theNodule ==
    <<"t", "h", "e", " ", "n", "o", "d", "u", "l", "e">>

\* "The nodules are visible"
T_noduleVisible ==
    <<"T", "h", "e", " ", "n", "o", "d", "u", "l", "e", "s", " ", "a", "r",
      "e", " ", "v", "i", "s", "i", "b", "l", "e">>

\* "s are visible"
T_sAreVisible ==
    <<"s", " ", "a", "r", "e", " ", "v", "i", "s", "i", "b", "l", "e">>

\* "over the lazy dog"
T_overLazyDog ==
    <<"o", "v", "e", "r", " ", "t", "h", "e", " ", "l", "a", "z", "y", " ",
      "d", "o", "g">>

\* "the lazy dog ran."
T_lazyDogRan ==
    <<"t", "h", "e", " ", "l", "a", "z", "y", " ", "d", "o", "g", " ", "r",
      "a", "n", ".">>

Vocabulary == {W_the, W_The, W_examination}

\* Every text of at most n vocabulary words joined by single spaces.
TextsUpTo(n) ==
    { join(ws) : ws \in UNION { [1..k -> Vocabulary] : k \in 0..n } }

\* s.repeat(n)
Repeat(s, n) == [i \in 1..(n * Len(s)) |-> s[((i - 1) % Len(s)) + 1]]

\* 55 times the word "a", for an overlap longer than the 50-word cap, and a
\* word of 110 letters, for an overlap longer than the 200-character tail
ManyWords == trim(Repeat(<<"a", " ">>, 55))
LongWord == Repeat(<<"a">>, 110)

SpecialPairs ==
    { [prev |-> T_quickFox, curr |-> T_quickFoxJumps],
      [prev |-> T_lazyDog, curr |-> T_lazyDogRained],
      [prev |-> T_overLazyDog, curr |-> T_lazyDogRan],
      [prev |-> T_measurePressure, curr |-> T_needPressure],
      [prev |-> T_unremarkableExam, curr |-> T_remarkableExam],
      [prev |-> T_examUnremark, curr |-> T_examUnremarkable],
      [prev |-> T_theNodule, curr |-> T_noduleVisible],
      [prev |-> <<"b", " ">> \o ManyWords, curr |-> ManyWords \o <<" ", "c">>],
      [prev |-> <<"b", " ">> \o LongWord \o <<" ">> \o LongWord,
       curr |-> LongWord \o <<" ">> \o LongWord \o <<" ", "c">>] }

ExtractInputs ==
    { [prev |-> p, curr |-> c] : p \in TextsUpTo(MaxWords), c \in TextsUpTo(MaxWords) }
        \cup SpecialPairs

(***************************************************************************)
(* The STT worker.  One window configuration (the env), a small set of     *)
(* STT responses, and the statements of transcribeChunk, processChunk and  *)
(* handleAudioFrame between two awaits as operators on the worker's state. *)
(***************************************************************************)
\* What the surroundings contribute to one behaviour, counted together: room
\* events, rejected calls (STT, fetch), the room service starting or ceasing
\* to reject sendData, and audio frames, a frame counting once for each
\* window it closes (the window's audio decides the VAD verdict and the STT
\* response); only the first frame of a subscription can close none
MaxInputs == 4

\* STT_SAMPLE_RATE, STT_TARGET_CHANNELS, STT_WINDOW_MS, STT_STRIDE_MS: a
\* window of 2 samples sliding by 1; STT_VAD_SENSITIVITY in percent (its
\* default, 0.5)
env == [sampleRate |-> 1000, channels |-> 1, windowMs |-> 2, strideMs |-> 1,
        vadSensitivityPct |-> 50]

\* The publication sids of the tracks.  A sid is only a key of trackContexts,
\* so which free sid a new subscription carries makes no difference: it is
\* taken to be the first free one of SidList.
SidList == <<"TR_a", "TR_b">>
Sids == Range(SidList)

\* samplesPerChannel of the frames a stream yields: a frame of 3 samples
\* closes two windows of a fresh ring, a frame of 1 closes one of a used ring
FrameLens == {1, 3}

\* Date.now() when the n-th subscription is made
DateNow(n) == 1000 * n

\* "Go. Ok."
T_goOk ==
    <<"G", "o", ".", " ", "O", "k", ".">>

\* "go. and"
T_goAnd ==
    <<"g", "o", ".", " ", "a", "n", "d">>

\* What groqClient.audio.transcriptions.create resolves to.
SttResponses ==
    { [text |-> T_goOk, segments |-> << >>],
      [text |-> T_goAnd, segments |-> <<[text |-> T_goAnd, confidence |-> ConfHalf]>>],
      [text |-> << >>, segments |-> << >>] }

InitialGlobals ==
    [lastBroadcastedText |-> << >>,
     transcriptHistory |-> << >>,
     totalChunksProcessed |-> 0,
     totalChunksSkipped |-> 0,
     sentenceBuffer |-> << >>,
     sentenceConfidence |-> ConfScale]

\* The reset without the assignment to sentenceBuffer.
resetKeepsSentenceBuffer(g) ==
    [g EXCEPT !.lastBroadcastedText = << >>,
              !.transcriptHistory = << >>,
              !.totalChunksProcessed = 0,
              !.totalChunksSkipped = 0,
              !.sentenceConfidence = ConfScale]

\* The six assignments of lines 423-428, 435-440 and 447-452.
resetTranscriptionState(g) ==
    [g EXCEPT !.lastBroadcastedText = << >>,
              !.transcriptHistory = << >>,
              !.totalChunksProcessed = 0,
              !.totalChunksSkipped = 0,
              !.sentenceBuffer = << >>,
              !.sentenceConfidence = ConfScale]

HistoryCap == 1000        \* lastBroadcastedText.slice(-1000)
RecentCap == 40           \* while (transcriptHistory.length > 40)
ContextCap == 10          \* transcriptHistory.slice(-10)

RECURSIVE bestConfidenceFrom(_, _, _)
bestConfidenceFrom(segments, i, max) ==
    IF i > Len(segments) THEN max
    ELSE bestConfidenceFrom(segments, i + 1, Max(max, segments[i].confidence))

\* The segment of lines 1079-1089 with its end taken one stride, not one
\* window, after its start.
makeSegmentStrideLong(metadata, cleanedText, bestConfidence, historyBefore) ==
    [text |-> cleanedText,
     startMs |-> metadata.startMs,
     endMs |-> metadata.startMs + env.strideMs,
     isFinal |-> TRUE, revision |-> 0, source |-> "stt",
     confidence |-> bestConfidence,
     historyBefore |-> historyBefore]

\* The segment of lines 1079-1089 marked as an interim result.
makeSegmentInterim(metadata, cleanedText, bestConfidence, historyBefore) ==
    [text |-> cleanedText,
     startMs |-> metadata.startMs,
     endMs |-> metadata.endMs,
     isFinal |-> FALSE, revision |-> 0, source |-> "stt",
     confidence |-> bestConfidence,
     historyBefore |-> historyBefore]

\* Lines 1079-1089.  historyBefore is a history field: lastBroadcastedText as
\* it stood before line 1059.
makeSegment(metadata, cleanedText, bestConfidence, historyBefore) ==
    [text |-> cleanedText,
     startMs |-> metadata.startMs,
     endMs |-> metadata.endMs,
     isFinal |-> TRUE, revision |-> 0, source |-> "stt",
     confidence |-> bestConfidence,
     historyBefore |-> historyBefore]

\* transcribeChunk from the STT response (line 990) to the await of
\* broadcastMetrics (line 1093) or an early return, stage by stage; each
\* stage yields the globals transcribeChunk leaves and the segments it is
\* about to return.
\* Lines 1058-1089 with the cap keeping the first, not the last, characters
releaseSegmentKeepingHead(g, released, response, metadata, cleanedText, appended) ==
    [globals |-> [released EXCEPT !.lastBroadcastedText =
                     IF Len(appended) > HistoryCap
                     THEN sliceTo(appended, HistoryCap) ELSE appended],
     segments |-> << makeSegment(metadata, cleanedText,
                                 bestConfidenceFrom(response.segments, 1, 0),
                                 g.lastBroadcastedText) >>]

\* Lines 1058-1089: lastBroadcastedText, its cap, and the segment
releaseSegment(g, released, response, metadata, cleanedText, appended) ==
    [globals |-> [released EXCEPT !.lastBroadcastedText =
                     IF Len(appended) > HistoryCap
                     THEN sliceLast(appended, HistoryCap) ELSE appended],
     segments |-> << makeSegment(metadata, cleanedText,
                                 bestConfidenceFrom(response.segments, 1, 0),
                                 g.lastBroadcastedText) >>]

\* Lines 1051-1056: the cleanup of the complete sentences
cleanSentences(g, released, response, metadata, cleanedText) ==
    IF cleanedText = << >> THEN [globals |-> released, segments |-> << >>]
    ELSE releaseSegment(g, released, response, metadata, cleanedText,
                        trim(g.lastBroadcastedText \o <<" ">> \o cleanedText))

\* The release test of lines 1037 without its confidence half.
releaseAnyConfidence(g, response, metadata, buffered, confidenceForNewText, blended, parts) ==
    IF parts.completeSentences = << >>
    THEN [globals |-> [g EXCEPT !.sentenceBuffer = buffered,
                                !.sentenceConfidence = blended],
          segments |-> << >>]
    ELSE cleanSentences(g,
             [g EXCEPT !.sentenceBuffer = parts.remainder,
                       !.sentenceConfidence =
                           blendConfidence(ConfScale, confidenceForNewText)],
             response, metadata,
             cleanupText(parts.completeSentences, response.segments))

\* Lines 1034-1048: the release test, then the buffer keeps the remainder
releaseSentences(g, response, metadata, buffered, confidenceForNewText, blended, parts) ==
    IF \/ parts.completeSentences = << >>
       \/ blended * 100 < ConfidenceThresholdPct * ConfScale
    THEN [globals |-> [g EXCEPT !.sentenceBuffer = buffered,
                                !.sentenceConfidence = blended],
          segments |-> << >>]
    ELSE cleanSentences(g,
             [g EXCEPT !.sentenceBuffer = parts.remainder,
                       !.sentenceConfidence =
                           blendConfidence(ConfScale, confidenceForNewText)],
             response, metadata,
             cleanupText(parts.completeSentences, response.segments))

\* Lines 1029-1031: the new text joins the sentence buffer
bufferNewText(g, response, metadata, buffered, computed) ==
    releaseSentences(g, response, metadata, buffered,
        IF computed = -1 THEN ConfScale ELSE computed,
        blendConfidence(g.sentenceConfidence,
                        IF computed = -1 THEN ConfScale ELSE computed),
        splitSentences(buffered))

\* Lines 1022-1026
keepActualNewText(g, response, metadata, actualNewText) ==
    IF actualNewText = << >>
    THEN [globals |-> [g EXCEPT !.totalChunksSkipped = @ + 1], segments |-> << >>]
    ELSE bufferNewText(g, response, metadata,
             trim(g.sentenceBuffer \o <<" ">> \o actualNewText),
             computeConfidenceForText(response.segments, actualNewText))

\* Lines 1006-1020 without the dedupAppend of lines 1019-1020
keepNewTextAsExtracted(g, response, metadata, combinedContext, newText) ==
    IF newText = << >>
    THEN [globals |-> [g EXCEPT !.totalChunksSkipped = @ + 1], segments |-> << >>]
    ELSE keepActualNewText(g, response, metadata, trim(newText))

\* Lines 1006-1020
keepNewText(g, response, metadata, combinedContext, newText) ==
    IF newText = << >>
    THEN [globals |-> [g EXCEPT !.totalChunksSkipped = @ + 1], segments |-> << >>]
    ELSE keepActualNewText(g, response, metadata,
             trim(sliceFrom(dedupAppend(combinedContext, newText),
                            Len(combinedContext))))

\* Lines 993-1004 with an empty text counted as a skipped chunk
transcribeFullTextCountingEmpty(g, response, metadata, fullText, combinedContext) ==
    IF fullText = << >>
    THEN [globals |-> [g EXCEPT !.totalChunksSkipped = @ + 1], segments |-> << >>]
    ELSE keepNewText(g, response, metadata, combinedContext,
                     extractNewText(combinedContext, fullText))

\* Lines 993-1004
transcribeFullText(g, response, metadata, fullText, combinedContext) ==
    IF fullText = << >> THEN [globals |-> g, segments |-> << >>]
    ELSE keepNewText(g, response, metadata, combinedContext,
                     extractNewText(combinedContext, fullText))

transcribeChunkResume(g, response, metadata) ==
    transcribeFullText(g, response, metadata, trim(response.text),
        trim(g.lastBroadcastedText \o <<" ">> \o g.sentenceBuffer))

\* Lines 623-626 with the ring keeping its oldest, not its latest, segments
pushHistoryKeepingOldest(g, segments) ==
    LET all == g.transcriptHistory \o segments
    IN  [g EXCEPT !.transcriptHistory = sliceTo(all, RecentCap)]

\* Lines 623-626: push the segments, keep the last 40
pushHistory(g, segments) ==
    LET all == g.transcriptHistory \o segments
    IN  [g EXCEPT !.transcriptHistory = sliceLast(all, RecentCap)]

\* What a track carries, as its samples are after applyGainControl (lines
\* 553-555, 1226-1243): zeros only (digital silence, which no gain changes),
\* or SomeSound, which stands for audio whose values the model does not
\* follow, stretches of silence included.
SomeSound == 1
TrackLevels == {0, SomeSound}

\* Lines 363-386: the TrackContext of the n-th subscription.  streaming is
\* the AudioStream: it yields frames until the track or the room goes away.
newContext(sid, n, level) ==
    [sid |-> sid,
     state |-> createEmptyState(
                   calculateSamples(env.sampleRate, env.windowMs, env.channels)),
     nextTimestampMs |-> DateNow(n),
     quiet |-> TRUE,        \* vadAccumulator holds no value other than 0
     level |-> level,       \* the samples the AudioStream yields
     streaming |-> TRUE,
     frames |-> 0,          \* history: frames handed to handleAudioFrame
     rejected |-> 0]        \* history: frames convertAudioFormat threw for

\* Where a handler is suspended in a call to the STT or correction service.
InFlight(h) == h.pc \in {"stt", "correction"}

\* interrupted is a history field: the handler's call was in flight when its
\* track was unsubscribed or the globals were reset.
interrupt(hs, which) ==
    [i \in 1..Len(hs) |->
        [a \in 1..Len(hs[i]) |->
            IF i \in which /\ InFlight(hs[i][a])
            THEN [hs[i][a] EXCEPT !.interrupted = TRUE]
            ELSE hs[i][a]]]

endStreams(ctxs, which) ==
    [i \in 1..Len(ctxs) |->
        IF i \in which THEN [ctxs[i] EXCEPT !.streaming = FALSE] ELSE ctxs[i]]

\* for await ... await handleAudioFrame (lines 394-404) with no await: the
\* loop taking the next frame whatever the previous one is doing.
CanTakeFrameAlways(i) ==
    /\ contexts[i].streaming
    /\ Len(handlers[i]) <= 1

\* Lines 394-404: the loop asks the stream for the next frame only when
\* handleAudioFrame of the previous one has settled.
CanTakeFrame(i) ==
    /\ contexts[i].streaming
    /\ handlers[i] = << >>

\* frame.channels of the frames a stream yields
FrameChannels == {1, 2, 3}

\* frame.data as 16-bit samples (lines 522-526): samplesPerChannel values for
\* each channel, interleaved
frameData(ctx, len, channels) == [k \in 1..(len * channels) |-> ctx.level]

\* stereoToMono (TranscriptStream.tsx 156-165): Math.round of the mean
stereoToMono(stereoSamples) ==
    [k \in 1..(Len(stereoSamples) \div 2) |->
        (stereoSamples[2 * k - 1] + stereoSamples[2 * k] + 1) \div 2]

\* convertAudioFormat (TranscriptStream.tsx 223-245), called when the frame's
\* layout is not the target's (line 533).  The frames explored arrive at the
\* target sample rate, so the resampling of lines 240-242 is not taken.
convertAudioFormat(input, fromChannels, toChannels) ==
    IF fromChannels = 2 /\ toChannels = 1
    THEN [ok |-> TRUE, samples |-> stereoToMono(input)]
    ELSE IF fromChannels # toChannels
    THEN [ok |-> FALSE, samples |-> << >>]
    ELSE [ok |-> TRUE, samples |-> input]

\* Lines 560-566: processSamples on the context's ring.
\* seq is a history field: the chunk is the seq-th window the track closed;
\* silent tells that every sample of the chunk's payload is 0.
frameResults(ctx, samples, closedBefore) ==
    LET w0 == [IdleWin(env) EXCEPT !.heap = ctx.state.heap, !.cursor = ctx.state.cursor]
        w == processSamples(w0, samples, env, ctx.nextTimestampMs)
    IN  [state |-> [heap |-> << w.heap[RingId] >>, cursor |-> w.cursor],
         chunks |-> [k \in 1..Len(w.outputs) |->
                       [startMs |-> w.outputs[k].metadata.startMs,
                        endMs |-> w.outputs[k].metadata.endMs,
                        silent |-> \A j \in 1..Len(w.heap[w.outputs[k].payload]) :
                                      w.heap[w.outputs[k].payload][j] = 0,
                        seq |-> closedBefore + k]]]

\* hasSpeech (lines 1245-1267).  For a payload of zeros rms is 0 and there is
\* no zero crossing; when vadAccumulator holds zeros only, avgZcr is 0 and
\* speechScore is 0 / max(1, dynamicThreshold) * 0.7 + 0 * 0.3 = 0, whatever
\* noiseFloor is.  For any other chunk the verdict depends on the values of
\* the samples: heard.
hasSpeech(silent, quiet, heard) ==
    IF silent /\ quiet THEN 0 >= env.vadSensitivityPct ELSE heard

\* What transcribeChunk reads of the globals once the STT call has returned
\* (lines 1001-1031): the module variables as they stand then, not as they
\* stood when the call was made (atCall, a history field of the handler).
contextReadAtCall(atCall, g) ==
    [g EXCEPT !.lastBroadcastedText = atCall.lastBroadcastedText,
              !.sentenceBuffer = atCall.sentenceBuffer]

contextRead(atCall, g) == g

\* Line 573, then processChunk up to its first await: the status send of a
\* silent chunk (line 601), or transcribeChunk up to the STT call (lines
\* 966-989; the await of toFile is taken together with that of the call).
StartChunk(i, a, ctxs, chunks, heard) ==
  \E speech \in {hasSpeech(chunks[1].silent, ctxs[i].quiet, heard)} :
    /\ contexts' = [ctxs EXCEPT ![i].nextTimestampMs = chunks[1].startMs + env.strideMs,
                                ![i].quiet = @ /\ chunks[1].silent]
    /\ statusLog' = IF speech THEN statusLog
                    ELSE Append(statusLog, [track |-> i, seq |-> chunks[1].seq,
                                            level |-> "info"])
    /\ handlers' =
         LET h == [pc |-> IF speech THEN "stt" ELSE "vadStatus",
                   chunks |-> chunks, segments |-> << >>, interrupted |-> FALSE,
                   error |-> "",
                   atCall |-> [lastBroadcastedText |-> globals.lastBroadcastedText,
                               sentenceBuffer |-> globals.sentenceBuffer]]
         IN  [handlers EXCEPT ![i] =
                 IF a > Len(@) THEN Append(@, h) ELSE [@ EXCEPT ![a] = h]]
    /\ globals' = IF speech
                  THEN [globals EXCEPT !.totalChunksProcessed = @ + 1]
                  ELSE globals
    /\ sttLog' = IF speech
                 THEN Append(sttLog, [track |-> i, seq |-> chunks[1].seq])
                 ELSE sttLog

\* broadcastStatus is called for the chunk of handler (i, a)
StatusCalled(i, a, level) ==
    statusLog' = Append(statusLog, [track |-> i,
                                    seq |-> handlers[i][a].chunks[1].seq,
                                    level |-> level])

\* The awaited call to the STT service rejects.
Fault ==
    /\ room.inputs < MaxInputs
    /\ room' = [room EXCEPT !.inputs = @ + 1]

Goto(i, a, pc) == handlers' = [handlers EXCEPT ![i][a].pc = pc]

\* A rejection reaches the catch of processChunk (lines 645-647):
\* broadcastStatus is called with level error and the error in its message,
\* and the handler waits for it at errStatus.
Catch(i, a, error) ==
    /\ handlers' = [handlers EXCEPT ![i][a].pc = "errStatus", ![i][a].error = error]
    /\ UNCHANGED statusLog

\* handleAudioFrame settles: the stream loop is back at for await (line 394).
Settle(i, a) ==
    handlers' = [handlers EXCEPT ![i] = SubSeq(@, 1, a - 1) \o SubSeq(@, a + 1, Len(@))]


(***************************************************************************)
(* The three parts of the model at rest: each specification starts the     *)
(* other two parts at rest and leaves them there.                          *)
(***************************************************************************)
WinIdle ==
    /\ config = [sampleRate |-> 1000, channels |-> 1, windowMs |-> 3, strideMs |-> 1]
    /\ win = IdleWin(config)
    /\ emitted = << >>
    /\ calls = 0
    /\ callStart = [op |-> "none", cursor |-> 0, len |-> 0, timestampMs |-> 0]
    /\ fed = 0

\* rateLimit.ts line 9: the store is empty when the module is loaded
NoEntry == [count |-> 0, resetAt |-> 0]
ApiKeys == {"key_a", "key_b"}

RateIdle ==
    /\ rateLimitStore = [id \in ApiKeys |-> NoEntry]
    /\ clock = 1
    /\ served = << >>

\* userAuth.ts line 46 and the api_keys table: no key is cached, every key
\* is active
AuthKeys == {"zk_a", "zk_b"}

AuthIdle ==
    auth = [active |-> [k \in AuthKeys |-> TRUE],
            cache |-> [k \in AuthKeys |-> 0],
            calls |-> << >>,
            log |-> << >>]

\* client.ts lines 47-58: a client just constructed.  Rooms and tracks are
\* numbered as they are created; 0 is undefined.
ClientIdle ==
    client = [room |-> 0, micTrack |-> 0, connectionState |-> "disconnected",
              recording |-> FALSE,
              rooms |-> << >>,    \* every Room created: its state, our listeners
              tracks |-> << >>,   \* every microphone track created
              calls |-> << >>,    \* the calls suspended at an await
              started |-> 0]      \* history: the calls made so far

\* aggregators.ts lines 9-10: both maps are empty.  A map is a function from
\* the segment ids to the stored segment or NoSegment; replaced and result
\* are history: the overwrites of the last ingest and what it returned;
\* ingests counts the calls.
AccIds == {"s1", "s2"}

NoSegment == [id |-> "none", startMs |-> 0, revision |-> 0, isFinal |-> FALSE, text |-> << >>]

EmptyMap == [id \in AccIds |-> NoSegment]

NullResult == [null |-> TRUE, rawFinalizedText |-> << >>, rawPendingText |-> << >>]

AccIdle ==
    accumulator = [finalSegments |-> EmptyMap, pendingSegments |-> EmptyMap,
                   replaced |-> << >>, result |-> NullResult, ingests |-> 0]

\* part_001 line 4: no event has a bucket.  listeners is the bucket of the
\* one event of the model, in insertion order (the empty sequence: no
\* bucket); registered is every listener function handed to the emitter,
\* with what it does and how often it was invoked; emits counts the calls
\* of emit made from outside.
EmitIdle == emitter = [listeners |-> << >>, registered |-> << >>, emits |-> 0]

AppIdle ==
    /\ AuthIdle
    /\ ClientIdle
    /\ AccIdle
    /\ EmitIdle

ExtIdle ==
    /\ fn = [name |-> "none"]
    /\ result = [done |-> FALSE, value |-> << >>]

PipeIdle ==
    /\ trackContexts = [sid \in Sids |-> 0]
    /\ contexts = << >>
    /\ handlers = << >>
    /\ globals = InitialGlobals
    /\ sent = << >>
    /\ closed = << >>
    /\ sttLog = << >>
    /\ historyLog = << >>
    /\ statusLog = << >>
    /\ room = [connected |-> TRUE, up |-> TRUE, inputs |-> 0]

(***************************************************************************)
(* SpecWin: the window library driven call by call.  Samples are numbered  *)
(* in arrival order, so that a window's content identifies the stretch of  *)
(* the stream it holds.                                                    *)
(***************************************************************************)
InitWin ==
    /\ ExtIdle
    /\ PipeIdle
    /\ RateIdle
    /\ AppIdle
    /\ config \in WinConfigs
    /\ win = IdleWin(config)
    /\ emitted = << >>
    /\ calls = 0
    /\ callStart = [op |-> "none", cursor |-> 0, len |-> 0, timestampMs |-> 0]
    /\ fed = 0

\* A caller whose last call ended at one of the positions pcs invokes
\* processSamples with the next len samples of the stream.
WinCallFrom(pcs) ==
    /\ win.pc \in pcs
    /\ calls < MaxCalls
    /\ \E len \in 0..MaxFrameLen :
         LET samples == [i \in 1..len |-> fed + i]
             ts == IF calls = 0 THEN 0 ELSE win.currentTimestamp
         IN  /\ win' = EnterProcessSamples(win, samples, config, ts)
             /\ callStart' = [op |-> "processSamples", cursor |-> win.cursor,
                              len |-> len, timestampMs |-> ts]
             /\ fed' = fed + len
    /\ calls' = calls + 1
    /\ UNCHANGED <<config, emitted, extVars, pipeVars, rateVars, appVars>>

WinCall == WinCallFrom({"idle", "return"})

\* One pass of the loop of processSamples.
WinStep ==
    /\ win.pc \in {"loop", "inner"}
    /\ win' = LoopStep(win, config)
    /\ emitted' =
         IF Len(win'.outputs) > Len(win.outputs)
         THEN Append(emitted,
                [chunk |-> win'.outputs[Len(win'.outputs)],
                 snapshot |-> win.heap[RingId],
                 cursorBefore |-> win.cursor,
                 cursorAfter |-> win'.cursor,
                 call |-> calls])
         ELSE emitted
    /\ UNCHANGED <<config, calls, callStart, fed, extVars, pipeVars, rateVars, appVars>>

NextWin == WinCall \/ WinStep

SpecWin == InitWin /\ [][NextWin]_vars

(***************************************************************************)
(* Claims about the window library (checked under SpecWin).                *)
(***************************************************************************)
Emits == Len(win'.outputs) > Len(win.outputs)

\* C3: a step of processSamples emits a window exactly when the cursor
\* equals the ring capacity N, and right after every emission the cursor is
\* max(0, N - strideSamples).
C3_EmitIffCursorFull ==
    [][ LET n == windowSamples(config)
        IN  /\ Emits => /\ win.cursor = n
                         /\ win'.cursor = Max(0, n - strideSamples(config))
            /\ win.cursor = n => Emits ]_vars

C3_Witness ==
    /\ Len(emitted) >= 3
    /\ emitted[1].call = 1
    /\ emitted[Len(emitted)].call = 2
    /\ emitted[Len(emitted)].cursorAfter > 0

\* C6: the payload of every chunk ever emitted equals the ring as it was at
\* the instant of its emission, whatever slides and appends came after.
C6_ChunkIndependentOfRing ==
    \A i \in 1..Len(emitted) :
        win.heap[emitted[i].chunk.payload] = emitted[i].snapshot

C6_Witness ==
    /\ calls = 2
    /\ win.pc = "return"
    /\ Len(emitted) >= 2
    /\ emitted[1].call = 1
    /\ win.heap[RingId] # emitted[1].snapshot
    /\ win.heap[emitted[1].chunk.payload] = emitted[1].snapshot

StartsIncrease(outputs) ==
    \A i \in 1..(Len(outputs) - 1) :
        outputs[i].metadata.startMs < outputs[i + 1].metadata.startMs

ExpectedWindows(c, len, n, stride) ==
    IF c + len < n THEN 0 ELSE ((c + len - n) \div Min(stride, n)) + 1

\* C7 as stated: a call appending L samples at cursor c emits 0 windows if
\* c + L < N, else floor((c + L - N) / min(stride, N)) + 1 windows in
\* strictly increasing startMs order; N samples into an empty ring give one
\* emission and leave cursor = N - strideSamples.
C7_AsStated ==
    win.pc = "return" =>
        LET n == windowSamples(config)
            stride == strideSamples(config)
        IN  /\ Len(win.outputs) =
                    ExpectedWindows(callStart.cursor, callStart.len, n, stride)
            /\ StartsIncrease(win.outputs)
            /\ (callStart.cursor = 0 /\ callStart.len = n) =>
                    (Len(win.outputs) = 1 /\ win.cursor = n - stride)

\* C7 amended: the same, with the cursor left at max(0, N - strideSamples).
C7_WindowCount ==
    win.pc = "return" =>
        LET n == windowSamples(config)
            stride == strideSamples(config)
        IN  /\ Len(win.outputs) =
                    ExpectedWindows(callStart.cursor, callStart.len, n, stride)
            /\ StartsIncrease(win.outputs)
            /\ (callStart.cursor = 0 /\ callStart.len = n) =>
                    (Len(win.outputs) = 1 /\ win.cursor = Max(0, n - stride))

C7_Witness ==
    /\ win.pc = "return"
    /\ callStart.cursor = 0
    /\ callStart.len = windowSamples(config)
    /\ strideSamples(config) > windowSamples(config)
    /\ Len(win.outputs) = 1

(***************************************************************************)
(* SpecExt: a pure text function applied to one input drawn from a         *)
(* bounded set.                                                            *)
(***************************************************************************)
InitExt ==
    /\ WinIdle
    /\ RateIdle
    /\ AppIdle
    /\ PipeIdle
    /\ \E in \in ExtractInputs :
         fn = [name |-> "extractNewText", prev |-> in.prev, curr |-> in.curr]
    /\ result = [done |-> FALSE, value |-> << >>]

CallExtractNewText ==
    /\ fn.name = "extractNewText"
    /\ ~result.done
    /\ result' = [done |-> TRUE, value |-> extractNewText(fn.prev, fn.curr)]
    /\ UNCHANGED <<fn, winVars, rateVars, appVars, pipeVars>>

NextExt == CallExtractNewText

SpecExt == InitExt /\ [][NextExt]_vars

(***************************************************************************)
(* Claims about the text functions (checked under SpecExt).                *)
(***************************************************************************)
\* The seven rules, first match wins, stated over the normalized texts.
SevenRules(P, C) ==
    LET nP == normalize(P)
        nC == normalize(C)
        oC == trim(C)
        pw == split(nP)
        cw == split(nC)
        ow == split(collapseWhitespace(oC))
        wordLens == { n \in 3..Min(Min(Len(pw), Len(cw)), 50) :
                        SubSeq(pw, Len(pw) - n + 1, Len(pw)) = SubSeq(cw, 1, n) }
        pt == SubSeq(nP, Max(1, Len(nP) - 199), Len(nP))
        ch == SubSeq(nC, 1, Min(200, Len(nC)))
        charLens == { n \in 20..Min(Len(pt), Len(ch)) :
                        SubSeq(pt, Len(pt) - n + 1, Len(pt)) = SubSeq(ch, 1, n) }
        common == { w \in Range(cw) : w \in Range(pw) }
    IN  CASE nP = << >> -> oC
          [] nP # << >> /\ includes(nP, nC) -> << >>
          [] nP # << >> /\ ~includes(nP, nC) /\ startsWith(nC, nP) ->
                trim(SubSeq(oC, Len(nP) + 1, Len(oC)))
          [] OTHER ->
                IF wordLens # {}
                THEN LET n == CHOOSE n \in wordLens : \A m \in wordLens : m <= n
                     IN  join(SubSeq(ow, n + 1, Len(ow)))
                ELSE IF charLens # {}
                THEN LET n == CHOOSE n \in charLens : \A m \in charLens : m <= n
                         spaces == { i \in (n + 1)..Len(oC) : IsSpace(oC[i]) }
                     IN  IF spaces = {} THEN trim(SubSeq(oC, n + 1, Len(oC)))
                         ELSE trim(SubSeq(oC, CHOOSE i \in spaces :
                                                \A j \in spaces : i <= j, Len(oC)))
                ELSE IF /\ 10 * Cardinality(common) > 7 * Cardinality(Range(cw))
                        /\ Len(cw) <= Len(pw)
                THEN << >>
                ELSE oC

\* C2: extractNewText returns what the seven-rule reference returns, on every
\* pair of texts; the two literal scenarios give "then it rained." and "".
C2_ExtractMatchesSevenRules ==
    (fn.name = "extractNewText" /\ result.done) =>
        /\ result.value = SevenRules(fn.prev, fn.curr)
        /\ (fn.prev = T_lazyDog /\ fn.curr = T_lazyDogRained) =>
                result.value = T_thenItRained
        /\ (fn.prev = T_measurePressure /\ fn.curr = T_needPressure) =>
                result.value = << >>

C2_Witness ==
    /\ fn.name = "extractNewText"
    /\ result.done
    /\ fn.prev = T_lazyDog
    /\ fn.curr = T_lazyDogRained
    /\ result.value = T_thenItRained

(***************************************************************************)
(* SpecPipe: the worker.  An action is the run of statements of one        *)
(* handler from one await to the next.                                     *)
(***************************************************************************)
\* The worker has joined the room; whether the room service accepts data
\* packets at that moment is not the worker's to decide.
InitPipe ==
    /\ WinIdle
    /\ RateIdle
    /\ AppIdle
    /\ ExtIdle
    /\ trackContexts = [sid \in Sids |-> 0]
    /\ contexts = << >>
    /\ handlers = << >>
    /\ globals = InitialGlobals
    /\ sent = << >>
    /\ closed = << >>
    /\ sttLog = << >>
    /\ historyLog = << >>
    /\ statusLog = << >>
    /\ \E up \in BOOLEAN : room = [connected |-> TRUE, up |-> up, inputs |-> 0]

\* room.on(TrackSubscribed), lines 333-409
TrackSubscribed ==
    \E k \in 1..Len(SidList), level \in TrackLevels : \E sid \in {SidList[k]} :
        /\ room.connected
        /\ trackContexts[sid] = 0
        /\ \A j \in 1..(k - 1) : trackContexts[SidList[j]] # 0
        /\ room.inputs < MaxInputs
        /\ contexts' = Append(contexts, newContext(sid, Len(contexts) + 1, level))
        /\ handlers' = Append(handlers, << >>)
        /\ closed' = Append(closed, << >>)
        /\ trackContexts' = [trackContexts EXCEPT ![sid] = Len(contexts) + 1]
        /\ room' = [room EXCEPT !.inputs = @ + 1]
        /\ UNCHANGED <<globals, sent, sttLog, historyLog, statusLog, winVars, rateVars,
                       appVars, extVars>>

\* room.on(TrackUnsubscribed), lines 411-430
TrackUnsubscribed ==
    \E sid \in Sids :
        LET i == trackContexts[sid]
            remaining == [trackContexts EXCEPT ![sid] = 0]
            last == \A s \in Sids : remaining[s] = 0
        IN  /\ room.connected
            /\ i # 0
            /\ room.inputs < MaxInputs
            /\ trackContexts' = remaining
            /\ globals' = IF last THEN resetTranscriptionState(globals) ELSE globals
            /\ contexts' = endStreams(contexts, {i})
            /\ handlers' = interrupt(handlers,
                               IF last THEN 1..Len(handlers) ELSE {i})
            /\ room' = [room EXCEPT !.inputs = @ + 1]
            /\ UNCHANGED <<sent, closed, sttLog, historyLog, statusLog, winVars, rateVars,
                           appVars, extVars>>

\* room.on(Disconnected), lines 432-441
Disconnected ==
    /\ room.connected
    /\ room.inputs < MaxInputs
    /\ globals' = resetTranscriptionState(globals)
    /\ contexts' = endStreams(contexts, 1..Len(contexts))
    /\ handlers' = interrupt(handlers, 1..Len(handlers))
    /\ room' = [room EXCEPT !.inputs = @ + 1, !.connected = FALSE]
    /\ UNCHANGED <<trackContexts, sent, closed, sttLog, historyLog, statusLog, winVars,
                   rateVars, appVars, extVars>>

\* room.on(ParticipantDisconnected), lines 444-453
ParticipantDisconnected ==
    /\ room.connected
    /\ room.inputs < MaxInputs
    /\ globals' = resetTranscriptionState(globals)
    /\ handlers' = interrupt(handlers, 1..Len(handlers))
    /\ room' = [room EXCEPT !.inputs = @ + 1]
    /\ UNCHANGED <<trackContexts, contexts, sent, closed, sttLog, historyLog, statusLog,
                   winVars, rateVars, appVars, extVars>>

\* The room service starts rejecting sendData (roomService.sendData of lines
\* 1126, 1144 and 1170 rejects while it does), or accepts it again.
RoomServiceDown ==
    /\ room.up
    /\ room.inputs < MaxInputs
    /\ room' = [room EXCEPT !.up = FALSE, !.inputs = @ + 1]
    /\ UNCHANGED <<trackContexts, contexts, handlers, globals, sent, closed, sttLog,
                   historyLog, statusLog,
                   winVars, rateVars, appVars, extVars>>

RoomServiceUp ==
    /\ ~room.up
    /\ room.inputs < MaxInputs
    /\ room' = [room EXCEPT !.up = TRUE, !.inputs = @ + 1]
    /\ UNCHANGED <<trackContexts, contexts, handlers, globals, sent, closed, sttLog,
                   historyLog, statusLog,
                   winVars, rateVars, appVars, extVars>>

\* The stream yields a frame to the loop of subscription i: handleAudioFrame
\* up to its return (no window closed) or its first await (lines 480-574).
FrameArrives ==
    \E i \in 1..Len(contexts), len \in FrameLens, channels \in FrameChannels :
      /\ CanTakeFrame(i)
      /\ \E converted \in {convertAudioFormat(frameData(contexts[i], len, channels),
                                               channels, env.channels)} :
           /\ converted.ok
           /\ \E r \in {frameResults(contexts[i], converted.samples, Len(closed[i]))} :
                LET ctxs == [contexts EXCEPT ![i].state = r.state, ![i].frames = @ + 1]
                IN  /\ room.inputs + Len(r.chunks) <= MaxInputs
                    /\ room' = [room EXCEPT !.inputs = @ + Len(r.chunks)]
                    /\ closed' = [closed EXCEPT ![i] =
                           @ \o [k \in 1..Len(r.chunks) |-> r.chunks[k].startMs]]
                    /\ IF r.chunks = << >>
                       THEN /\ contexts' = ctxs
                            /\ UNCHANGED <<handlers, globals, sttLog, statusLog>>
                       ELSE \E heard \in BOOLEAN :
                                StartChunk(i, Len(handlers[i]) + 1, ctxs, r.chunks, heard)
      /\ UNCHANGED <<trackContexts, sent, historyLog, winVars, rateVars, appVars, extVars>>

\* The stream yields a frame whose channel layout convertAudioFormat does not
\* support: the error leaves handleAudioFrame at line 544 and is logged by
\* the stream loop (lines 401-403), which goes on to the next frame.
FrameRejected ==
    \E i \in 1..Len(contexts), len \in FrameLens, channels \in FrameChannels :
        /\ CanTakeFrame(i)
        /\ room.inputs < MaxInputs
        /\ ~convertAudioFormat(frameData(contexts[i], len, channels),
                               channels, env.channels).ok
        /\ contexts' = [contexts EXCEPT ![i].frames = @ + 1, ![i].rejected = @ + 1]
        /\ room' = [room EXCEPT !.inputs = @ + 1]
        /\ UNCHANGED <<trackContexts, handlers, globals, sent, closed, sttLog,
                       historyLog, statusLog, winVars, rateVars, appVars, extVars>>

\* The STT call settles: transcribeChunk from line 990 on, then processChunk
\* to line 613 when no segment comes back; the catch of line 645 on a
\* rejection.
SttDone ==
    \E i \in 1..Len(handlers) : \E a \in 1..Len(handlers[i]) :
        /\ handlers[i][a].pc = "stt"
        /\ \/ \E response \in SttResponses :
                \E t \in {transcribeChunkResume(
                              contextRead(handlers[i][a].atCall, globals),
                              response, handlers[i][a].chunks[1])} :
                    /\ globals' = t.globals
                    /\ handlers' = [handlers EXCEPT
                           ![i][a].pc = IF t.segments = << >> THEN "delay" ELSE "metrics",
                           ![i][a].segments = t.segments]
                    /\ historyLog' = IF t.segments = << >> THEN historyLog
                                      ELSE Append(historyLog,
                                               [track |-> i,
                                                seq |-> handlers[i][a].chunks[1].seq])
                    /\ UNCHANGED <<room, statusLog>>
           \/ /\ Fault
              /\ Catch(i, a, "stt")
              /\ UNCHANGED <<globals, historyLog>>
        /\ UNCHANGED <<trackContexts, contexts, sent, closed, sttLog, winVars, rateVars,
                       appVars, extVars>>

\* broadcastMetrics settles (line 1093): lines 1105 and 612-628.
MetricsDone ==
    \E i \in 1..Len(handlers) : \E a \in 1..Len(handlers[i]) :
        /\ handlers[i][a].pc = "metrics"
        /\ \/ /\ room.up
              /\ globals' = pushHistory(globals, handlers[i][a].segments)
              /\ Goto(i, a, "update")
              /\ UNCHANGED statusLog
           \/ /\ ~room.up
              /\ Catch(i, a, "sendData")
              /\ UNCHANGED globals
        /\ UNCHANGED <<room, trackContexts, contexts, sent, closed, sttLog, historyLog,
                       winVars, rateVars, appVars, extVars>>

\* broadcastUpdate settles (line 628): the room has taken the envelope, and
\* broadcastStatus is called (line 634, level info by default).
UpdateDone ==
    \E i \in 1..Len(handlers) : \E a \in 1..Len(handlers[i]) :
        /\ handlers[i][a].pc = "update"
        /\ \/ /\ room.up
              /\ sent' = Append(sent, [track |-> i,
                                       seq |-> handlers[i][a].chunks[1].seq,
                                       interrupted |-> handlers[i][a].interrupted,
                                       segments |-> handlers[i][a].segments])
              /\ Goto(i, a, "okStatus")
              /\ StatusCalled(i, a, "info")
           \/ /\ ~room.up
              /\ Catch(i, a, "sendData")
              /\ UNCHANGED sent
        /\ UNCHANGED <<room, trackContexts, contexts, globals, closed, sttLog, historyLog,
                       winVars, rateVars, appVars, extVars>>

\* Lines 1183-1186: some segment of the batch has text
hasText(segments) ==
    \E k \in 1..Len(segments) : Len(trim(segments[k].text)) > 0

\* broadcastStatus of line 634 settles; requestCorrection up to its fetch,
\* or to its return at line 1185 for a batch without text.
OkStatusDone ==
    \E i \in 1..Len(handlers) : \E a \in 1..Len(handlers[i]) :
        /\ handlers[i][a].pc = "okStatus"
        /\ \/ /\ room.up
              /\ Goto(i, a, IF hasText(handlers[i][a].segments)
                            THEN "correction" ELSE "delay")
              /\ UNCHANGED statusLog
           \/ /\ ~room.up
              /\ Catch(i, a, "sendData")
        /\ UNCHANGED <<room, trackContexts, contexts, globals, sent, closed, sttLog,
                       historyLog, winVars, rateVars, appVars, extVars>>

\* The correction request settles (lines 1200-1214); a rejected fetch or a
\* response that is not ok is thrown to the catch of line 645.
CorrectionDone ==
    \E i \in 1..Len(handlers) : \E a \in 1..Len(handlers[i]) :
        /\ handlers[i][a].pc = "correction"
        /\ \/ /\ Goto(i, a, "delay")
              /\ UNCHANGED statusLog
           \/ Catch(i, a, "correction")
        /\ UNCHANGED <<room, trackContexts, contexts, globals, sent, closed, sttLog, historyLog,
                       winVars, rateVars, appVars, extVars>>

\* broadcastStatus of a silent chunk settles (line 601).
VadStatusDone ==
    \E i \in 1..Len(handlers) : \E a \in 1..Len(handlers[i]) :
        /\ handlers[i][a].pc = "vadStatus"
        /\ \/ /\ room.up
              /\ Goto(i, a, "delay")
              /\ UNCHANGED statusLog
           \/ /\ ~room.up
              /\ Catch(i, a, "sendData")
        /\ UNCHANGED <<room, trackContexts, contexts, globals, sent, closed, sttLog,
                       historyLog, winVars, rateVars, appVars, extVars>>

\* broadcastStatus of the catch block settles (line 647).  Its rejection is
\* thrown out of processChunk and of handleAudioFrame to the catch of line
\* 401: the chunks the frame still had are never processed.
ErrStatusDone ==
    \E i \in 1..Len(handlers) : \E a \in 1..Len(handlers[i]) :
        /\ handlers[i][a].pc = "errStatus"
        /\ \/ /\ room.up
              /\ handlers' = [handlers EXCEPT ![i][a].pc = "delay", ![i][a].error = ""]
           \/ /\ ~room.up
              /\ Settle(i, a)
        /\ UNCHANGED <<room, trackContexts, contexts, globals, sent, closed, sttLog,
                       historyLog, statusLog, winVars, rateVars, appVars, extVars>>

\* delay(0) settles (line 581): the next chunk of the frame, or the return
\* of handleAudioFrame to the stream loop.
DelayDone ==
    \E i \in 1..Len(handlers), heard \in BOOLEAN : \E a \in 1..Len(handlers[i]) :
        LET rest == Tail(handlers[i][a].chunks)
        IN  /\ handlers[i][a].pc = "delay"
            /\ IF rest = << >>
               THEN /\ heard
                    /\ Settle(i, a)
                    /\ UNCHANGED <<contexts, globals, sttLog, statusLog>>
               ELSE StartChunk(i, a, contexts, rest, heard)
            /\ UNCHANGED <<trackContexts, sent, closed, historyLog, room, winVars,
                           rateVars, appVars, extVars>>

NextPipe ==
    \/ TrackSubscribed
    \/ TrackUnsubscribed
    \/ Disconnected
    \/ ParticipantDisconnected
    \/ RoomServiceDown
    \/ RoomServiceUp
    \/ FrameArrives
    \/ FrameRejected
    \/ SttDone
    \/ MetricsDone
    \/ UpdateDone
    \/ OkStatusDone
    \/ CorrectionDone
    \/ VadStatusDone
    \/ ErrStatusDone
    \/ DelayDone

SpecPipe == InitPipe /\ [][NextPipe]_vars

(***************************************************************************)
(* Claims about the worker (checked under SpecPipe).                       *)
(***************************************************************************)
\* Every segment the worker holds or has sent: the envelopes taken by the
\* room, transcriptHistory, and what transcribeChunk is about to return.
Segments ==
    {sent[k].segments[1] : k \in 1..Len(sent)}
        \cup Range(globals.transcriptHistory)
        \cup UNION {UNION {Range(handlers[i][a].segments) : a \in 1..Len(handlers[i])}
                       : i \in 1..Len(handlers)}

\* C1, as stated: the normalized text of an emitted segment that follows
\* another one is not a substring of the last 200 normalized characters of
\* lastBroadcastedText as it stood just before the segment was emitted.
C1_AsStated ==
    \A k \in 2..Len(sent) :
        ~includes(sliceLast(normalize(sent[k].segments[1].historyBefore), CharTail),
                  normalize(sent[k].segments[1].text))

\* C4, as stated: the windows a track closes one after the other start one
\* stride apart.
C4_AsStated ==
    \A i \in 1..Len(closed) : \A k \in 1..(Len(closed[i]) - 1) :
        closed[i][k + 1] = closed[i][k] + env.strideMs

\* C5: every emitted segment is one window long, endMs - startMs = windowMs.
C5_SegmentSpansWindow ==
    \A seg \in Segments : seg.endMs - seg.startMs = env.windowMs

C5_Witness ==
    /\ Len(sent) >= 2
    /\ sent[2].segments[1].startMs > sent[1].segments[1].startMs
    /\ Len(globals.transcriptHistory) >= 2

\* C8: for one track (one subscription's stream loop), windows reach the STT
\* service in the order they were closed, at most one window is in
\* processing at a time, no frame is taken while a chunk of the track is in
\* processing, and the envelopes of the track go out in increasing startMs.
SttInClosingOrder ==
    \A j \in 1..Len(sttLog) : \A k \in (j + 1)..Len(sttLog) :
        sttLog[j].track = sttLog[k].track => sttLog[j].seq < sttLog[k].seq

OneWindowAtATime == \A i \in 1..Len(handlers) : Len(handlers[i]) <= 1

EnvelopesInStartOrder ==
    \A j \in 1..Len(sent) : \A k \in (j + 1)..Len(sent) :
        sent[j].track = sent[k].track
            => sent[j].segments[1].startMs < sent[k].segments[1].startMs

FrameTaken(i) == contexts'[i].frames # contexts[i].frames

C8_SequentialPerTrack ==
    /\ [](SttInClosingOrder /\ OneWindowAtATime /\ EnvelopesInStartOrder)
    /\ [][\A i \in 1..Len(contexts) : FrameTaken(i) => handlers[i] = << >>]_vars

C8_Witness ==
    \E i \in 1..Len(contexts) :
        /\ contexts[i].frames >= 2
        /\ Len(closed[i]) >= 3
        /\ Cardinality({k \in 1..Len(sttLog) : sttLog[k].track = i}) >= 2
        /\ Cardinality({k \in 1..Len(sent) : sent[k].track = i}) >= 2

\* C9, as stated: once a track is unsubscribed or the globals are reset while
\* an STT or correction call of a handler is in flight, what that handler
\* does with the window afterwards leaves lastBroadcastedText, sentenceBuffer
\* and transcriptHistory alone and sends no transcript envelope.
C9_AsStated ==
    [][\A i \in 1..Len(handlers) : \A a \in 1..Len(handlers[i]) :
          (handlers[i][a].interrupted /\ handlers'[i] # handlers[i])
              => /\ globals'.lastBroadcastedText = globals.lastBroadcastedText
                 /\ globals'.sentenceBuffer = globals.sentenceBuffer
                 /\ globals'.transcriptHistory = globals.transcriptHistory
                 /\ sent' = sent]_vars

\* C10: the step that unsubscribes the last track, and the step that
\* disconnects the room, leave lastBroadcastedText empty, sentenceBuffer
\* empty with confidence 1, transcriptHistory empty and both counters 0.
LastTrackUnsubscribes ==
    /\ \E sid \in Sids : trackContexts[sid] # 0
    /\ \A sid \in Sids : trackContexts'[sid] = 0

RoomDisconnects == room.connected /\ ~room'.connected

GlobalsEmpty(g) ==
    /\ g.lastBroadcastedText = << >>
    /\ g.sentenceBuffer = << >>
    /\ g.sentenceConfidence = ConfScale
    /\ g.transcriptHistory = << >>
    /\ g.totalChunksProcessed = 0
    /\ g.totalChunksSkipped = 0

C10_ResetOnLastUnsubscribeAndDisconnect ==
    [][(LastTrackUnsubscribes \/ RoomDisconnects) => GlobalsEmpty(globals')]_vars

\* One subscription, a window transcribed and its envelope sent, then the
\* unsubscribe: nothing else fits in four inputs.
C10_Witness ==
    /\ Len(contexts) = 1
    /\ \A sid \in Sids : trackContexts[sid] = 0
    /\ room.connected /\ room.up /\ room.inputs = 4
    /\ sent # << >>
    /\ handlers[1] = << >>
    /\ GlobalsEmpty(globals)

\* C11, as stated: with two tracks transcribing, the transcript envelopes
\* reach the room in the order in which their texts were appended to
\* lastBroadcastedText.
HistoryPos(e) ==
    CHOOSE n \in 1..Len(historyLog) :
        historyLog[n].track = e.track /\ historyLog[n].seq = e.seq

C11_AsStated ==
    \A j \in 1..Len(sent) : \A k \in 1..Len(sent) :
        j < k => HistoryPos(sent[j]) < HistoryPos(sent[k])

\* C12: the step in which a handler resumes after its STT call writes
\* lastBroadcastedText, sentenceBuffer and sentenceConfidence as transcribeChunk
\* computes them from the globals of the state the step starts in: no write
\* of another track and no reset comes between the read and the write.
Resumes(i, a) ==
    /\ handlers[i][a].pc = "stt"
    /\ handlers'[i][a].pc \in {"delay", "metrics"}

C12_ReadAndWriteInOneStep ==
    [][\A i \in 1..Len(handlers) : \A a \in 1..Len(handlers[i]) :
          Resumes(i, a) =>
              \E response \in SttResponses :
                  \E t \in {transcribeChunkResume(globals, response,
                                                  handlers[i][a].chunks[1])} :
                      /\ globals' = t.globals
                      /\ handlers'[i][a].segments = t.segments]_vars

\* A handler resumes and emits after another track has changed the history
\* while its STT call was in flight.
C12_Witness ==
    \E i \in 1..Len(handlers) : \E a \in 1..Len(handlers[i]) :
        /\ handlers[i][a].pc = "metrics"
        /\ handlers[i][a].atCall.lastBroadcastedText = << >>
        /\ handlers[i][a].segments[1].historyBefore # << >>

(***************************************************************************)
(* SpecChunk: one track, every send accepted, window after window:         *)
(* transcribeChunk from its first line to its return and the push of       *)
(* processChunk, as one step per window.  fn holds the STT response of the *)
(* last window, the globals before it and the response of the window       *)
(* before; result holds the segments returned.                             *)
(***************************************************************************)
MaxChunks == 3

\* "So far."
T_soFar ==
    <<"S", "o", " ", "f", "a", "r", ".">>

\* "and then"
T_andThen ==
    <<"a", "n", "d", " ", "t", "h", "e", "n">>

\* "we saw it we saw it today."
T_stutter ==
    <<"w", "e", " ", "s", "a", "w", " ", "i", "t", " ", "w", "e", " ", "s",
      "a", "w", " ", "i", "t", " ", "t", "o", "d", "a", "y", ".">>

\* "Wait!! Ok."
T_waitOk ==
    <<"W", "a", "i", "t", "!", "!", " ", "O", "k", ".">>

\* "  "
T_blank ==
    <<" ", " ">>

\* "ok. go. and"
T_okGoAnd ==
    <<"o", "k", ".", " ", "g", "o", ".", " ", "a", "n", "d">>

\* "Go. And more"
T_goAndMore ==
    <<"G", "o", ".", " ", "A", "n", "d", " ", "m", "o", "r", "e">>

\* "A. B. C. d"
T_threeMore ==
    <<"A", ".", " ", "B", ".", " ", "C", ".", " ", "d">>

\* Answers of one long word: two of them overflow the HistoryCap characters
\* of lastBroadcastedText, the third does so alone
LongResponses ==
    { [text |-> Repeat(<<c>>, n) \o <<".">>, segments |-> << >>] :
        <<c, n>> \in {<<"b", 600>>, <<"c", 600>>, <<"d", HistoryCap + 100>>} }

\* What the STT service may answer for a window: text with and without
\* segment confidences, no text, blanks, text without a sentence end, a
\* stutter, doubled punctuation, sentences followed by a fragment.
ChunkResponses ==
    SttResponses \cup
    { [text |-> T_soFar, segments |-> <<[text |-> T_soFar, confidence |-> 0]>>],
      [text |-> T_andThen, segments |-> << >>],
      [text |-> T_stutter, segments |-> << >>],
      [text |-> T_waitOk, segments |-> << >>],
      [text |-> T_blank, segments |-> << >>],
      [text |-> T_threeMore, segments |-> << >>],
      [text |-> T_okGoAnd, segments |-> << >>],
      [text |-> T_goAndMore, segments |-> << >>] }

\* The metadata of the n-th window of the track (processSamples, lines
\* 252-328 of the window library)
chunkMetadata(n) ==
    [startMs |-> DateNow(1) + (n - 1) * env.strideMs,
     endMs |-> DateNow(1) + (n - 1) * env.strideMs + env.windowMs,
     seq |-> n]

InitChunk ==
    /\ WinIdle
    /\ RateIdle
    /\ AppIdle
    /\ ExtIdle
    /\ PipeIdle

\* The context of the correction request for a batch (lines 1183-1193): none
\* when the batch has no text, else the last 10 items of transcriptHistory
correctionContext(g, segments) ==
    IF \A k \in 1..Len(segments) : trim(segments[k].text) = << >>
    THEN << >>
    ELSE sliceLast(g.transcriptHistory, ContextCap)

\* processChunk for a window judged speech, with every send and the
\* correction request succeeding (lines 610-644, transcribeChunk lines
\* 965-1105), for an STT answer out of responses; at most max inputs.
\* fn.context is the context of the correction request made.
TranscribeWithin(responses, max) ==
    \E response \in responses :
        /\ room.inputs < max
        /\ \E t \in {transcribeChunkResume(
                         [globals EXCEPT !.totalChunksProcessed = @ + 1],
                         response, chunkMetadata(room.inputs + 1))} :
             \E after \in {pushHistory(t.globals, t.segments)} :
               /\ globals' = after
               /\ result' = [done |-> TRUE, value |-> t.segments]
               /\ fn' = [name |-> "transcribeChunk",
                         response |-> response,
                         before |-> globals,
                         context |-> correctionContext(after, t.segments),
                         previous |-> IF fn.name = "transcribeChunk"
                                      THEN <<fn.response>> ELSE << >>]
        /\ room' = [room EXCEPT !.inputs = @ + 1]
        /\ UNCHANGED <<trackContexts, contexts, handlers, sent, closed, sttLog,
                       historyLog, statusLog, winVars, rateVars, appVars>>

Transcribe(responses) == TranscribeWithin(responses, MaxChunks)

\* resetTranscriptionState between two windows (lines 423-428, 432-441)
ResetWithin(max) ==
    /\ room.inputs < max
    /\ globals' = resetTranscriptionState(globals)
    /\ fn' = [name |-> "resetTranscriptionState"]
    /\ result' = [done |-> FALSE, value |-> << >>]
    /\ room' = [room EXCEPT !.inputs = @ + 1]
    /\ UNCHANGED <<trackContexts, contexts, handlers, sent, closed, sttLog,
                   historyLog, statusLog, winVars, rateVars, appVars>>

ResetBetweenWindows == ResetWithin(MaxChunks)

TranscribeWindow == Transcribe(ChunkResponses)

NextChunk == TranscribeWindow \/ ResetBetweenWindows

SpecChunk == InitChunk /\ [][NextChunk]_vars

(***************************************************************************)
(* SpecHistory: SpecChunk with long STT answers, which fill                *)
(* lastBroadcastedText to its cap.                                         *)
(***************************************************************************)
TranscribeLongWindow ==
    Transcribe(LongResponses \cup {[text |-> T_goOk, segments |-> << >>],
                                   [text |-> T_soFar, segments |-> << >>]})

NextHistory == TranscribeLongWindow \/ ResetBetweenWindows

SpecHistory == InitChunk /\ [][NextHistory]_vars

\* The window fn describes has run
Transcribed == fn.name = "transcribeChunk"

\* actualNewText of line 1023 for the window fn describes
ActualNewText ==
    LET context == trim(fn.before.lastBroadcastedText \o <<" ">> \o
                        fn.before.sentenceBuffer)
        fullText == trim(fn.response.text)
        newText == IF fullText = << >> THEN << >>
                   ELSE extractNewText(context, fullText)
    IN  IF newText = << >> THEN << >>
        ELSE trim(sliceFrom(dedupAppend(context, newText), Len(context)))

\* A sentence terminator followed by whitespace or by the end of the text
HasSentenceEnd(text) ==
    \E k \in 1..Len(text) :
        /\ text[k] \in {".", "!", "?"}
        /\ k = Len(text) \/ text[k + 1] = " "

\* C13: a window emits only if, with its new text appended, the sentence
\* buffer has a sentence end and the blended confidence reaches the
\* threshold; otherwise nothing is emitted, the buffer holds its old text
\* and the new text, and lastBroadcastedText and transcriptHistory are as
\* before.
Releasable ==
    LET new == ActualNewText
        computed == computeConfidenceForText(fn.response.segments, new)
    IN  /\ new # << >>
        /\ HasSentenceEnd(trim(fn.before.sentenceBuffer \o <<" ">> \o new))
        /\ blendConfidence(fn.before.sentenceConfidence,
                           IF computed = -1 THEN ConfScale ELSE computed) * 100
               >= ConfidenceThresholdPct * ConfScale

C13_EmitsOnlyWhenReleasable ==
    Transcribed =>
        /\ result.value # << >> => Releasable
        /\ ~Releasable =>
              /\ result.value = << >>
              /\ globals.sentenceBuffer =
                     trim(fn.before.sentenceBuffer \o <<" ">> \o ActualNewText)
              /\ globals.lastBroadcastedText = fn.before.lastBroadcastedText
              /\ globals.transcriptHistory = fn.before.transcriptHistory

\* A complete sentence with new text is held back for its confidence alone.
C13_Witness ==
    /\ Transcribed
    /\ ~Releasable
    /\ ActualNewText # << >>
    /\ HasSentenceEnd(globals.sentenceBuffer)
    /\ fn.before.lastBroadcastedText # << >>

(***************************************************************************)
(* SpecText: splitSentences and cleanupText on bounded texts.  A call      *)
(* named release is lines 1034 and 1051 of transcribeChunk on a sentence   *)
(* buffer: splitSentences, then cleanupText of the complete sentences.     *)
(***************************************************************************)
MaxChars == 5
MaxPhrase == 3

Alphabet == {"a", "B", " ", ".", "!"}

\* Sentence buffers: every text of at most MaxChars characters that is
\* trimmed, as line 1029 leaves the buffer
BufferTexts ==
    { t \in UNION { [1..k -> Alphabet] : k \in 0..MaxChars } : trim(t) = t }

\* "Go. Ok. so"
T_goOkSo ==
    <<"G", "o", ".", " ", "O", "k", ".", " ", "s", "o">>

\* Sentence buffers of two and of three sentences before a remainder
LongBufferTexts == {T_goOkSo, T_threeMore}

\* "the nodule the nodule is visible."
T_noduleTwice ==
    <<"t", "h", "e", " ", "n", "o", "d", "u", "l", "e", " ", "t", "h", "e",
      " ", "n", "o", "d", "u", "l", "e", " ", "i", "s", " ", "v", "i", "s",
      "i", "b", "l", "e", ".">>

\* "the nodule is visible."
T_noduleOnce ==
    <<"t", "h", "e", " ", "n", "o", "d", "u", "l", "e", " ", "i", "s", " ",
      "v", "i", "s", "i", "b", "l", "e", ".">>

CleanupWords == {<<"a">>, <<"B">>, <<"c", ".">>}

\* Texts for cleanupText: a phrase p of 1 to MaxPhrase words said twice and
\* then a last word, with or without a word in front
StutterTexts ==
    { join(front \o p \o p \o <<last>>) :
        front \in {<< >>, <<(<<"a">>)>>},
        p \in UNION { [1..k -> CleanupWords] : k \in 1..MaxPhrase },
        last \in CleanupWords }

CleanupTexts == StutterTexts \cup {T_noduleTwice, T_noduleOnce, T_stutter, T_waitOk}

InitText ==
    /\ WinIdle
    /\ RateIdle
    /\ AppIdle
    /\ PipeIdle
    /\ result = [done |-> FALSE, value |-> << >>]
    /\ \/ \E t \in BufferTexts \cup LongBufferTexts :
             fn = [name |-> "release", text |-> t]
       \/ \E t \in CleanupTexts : fn = [name |-> "cleanupText", text |-> t]

\* Lines 1034 and 1051
CallRelease ==
    /\ fn.name = "release"
    /\ ~result.done
    /\ \E parts \in {splitSentences(fn.text)} :
           result' = [done |-> TRUE,
                      value |-> [completeSentences |-> parts.completeSentences,
                                 remainder |-> parts.remainder,
                                 cleanedText |->
                                     cleanupText(parts.completeSentences, << >>)]]
    /\ UNCHANGED <<fn, winVars, rateVars, appVars, pipeVars>>

\* cleanupText (lines 876-925) without segment confidences
CallCleanupText ==
    /\ fn.name = "cleanupText"
    /\ ~result.done
    /\ result' = [done |-> TRUE, value |-> cleanupText(fn.text, << >>)]
    /\ UNCHANGED <<fn, winVars, rateVars, appVars, pipeVars>>

NextText == CallRelease \/ CallCleanupText

SpecText == InitText /\ [][NextText]_vars

\* C14: the text released from a sentence buffer, after cleanup, ends with
\* . ! or ?, or with one of them followed by a closing parenthesis or quote.
EndsSentence(text) ==
    /\ text # << >>
    /\ \/ IsTerminator(text[Len(text)])
       \/ /\ Len(text) >= 2
          /\ text[Len(text)] \in {")", "\"", "'"}
          /\ IsTerminator(text[Len(text) - 1])

Released == result.done /\ fn.name = "release" /\ result.value.completeSentences # << >>

C14_ReleasedTextEndsSentence ==
    Released => EndsSentence(result.value.cleanedText)

\* A buffer of MaxChars characters releases a part of its text, and cleanup
\* changes what is released.
C14_Witness ==
    /\ Released
    /\ result.value.cleanedText # result.value.completeSentences
    /\ result.value.cleanedText # fn.text
    /\ Len(fn.text) = MaxChars

\* C15, as stated: cleanupText leaves no phrase said twice in a row, and
\* makes "the nodule is visible." of "the nodule the nodule is visible.".
SaidTwice(words) ==
    \E i \in 1..Len(words) : \E n \in 1..Len(words) :
        /\ i + 2 * n - 1 <= Len(words)
        /\ toLowerCase(join(SubSeq(words, i, i + n - 1)))
               = toLowerCase(join(SubSeq(words, i + n, i + 2 * n - 1)))

C15_AsStated ==
    (result.done /\ fn.name = "cleanupText") =>
        /\ ~SaidTwice(split(result.value))
        /\ fn.text = T_noduleTwice => result.value = T_noduleOnce

\* C16: lastBroadcastedText never has more than 1000 characters, and right
\* after a window emits text t the normalized lastBroadcastedText ends with
\* the normalized t, or is the end of t when t alone is longer.
endsWith(s, suffix) ==
    /\ Len(suffix) <= Len(s)
    /\ SubSeq(s, Len(s) - Len(suffix) + 1, Len(s)) = suffix

C16_HistoryCappedAndEndsWithEmitted ==
    /\ Len(globals.lastBroadcastedText) <= HistoryCap
    /\ (Transcribed /\ result.value # << >>) =>
          LET t == normalize(result.value[1].text)
              history == normalize(globals.lastBroadcastedText)
          IN  IF Len(result.value[1].text) <= HistoryCap
              THEN endsWith(history, t)
              ELSE endsWith(t, history)

\* The history was full and has lost its oldest characters to a new text.
C16_Witness ==
    /\ Transcribed
    /\ result.value # << >>
    /\ Len(result.value[1].text) <= HistoryCap
    /\ Len(globals.lastBroadcastedText) = HistoryCap
    /\ Len(fn.before.lastBroadcastedText) + Len(result.value[1].text) > HistoryCap
    /\ fn.before.lastBroadcastedText # << >>

\* C17, as stated: a handler that has appended its text to
\* lastBroadcastedText and awaits the metrics send goes on to send the
\* transcript envelope of that window, whatever becomes of the metrics send.
C17_AsStated ==
    [][\A i \in 1..Len(handlers) : \A a \in 1..Len(handlers[i]) :
          (handlers[i][a].pc = "metrics" /\ handlers[i][a].segments # << >>)
              => handlers'[i][a].pc \in {"metrics", "update"}]_vars

\* C18, as stated: a window whose STT text is empty or blank emits nothing
\* and leaves every global as it was before the window: lastBroadcastedText,
\* sentenceBuffer and its confidence, transcriptHistory and both counters.
EmptyAnswer == Transcribed /\ trim(fn.response.text) = << >>

C18_AsStated ==
    EmptyAnswer => (result.value = << >> /\ globals = fn.before)

\* C18: such a window emits nothing and leaves the globals as they were but
\* for totalChunksProcessed, which line 966 has raised by one before the
\* STT call.
C18_EmptyAnswerCountsAsProcessed ==
    EmptyAnswer =>
        /\ result.value = << >>
        /\ globals = [fn.before EXCEPT !.totalChunksProcessed = @ + 1]

\* A blank answer arrives while text waits in the buffer and in the history.
C18_Witness ==
    /\ EmptyAnswer
    /\ fn.response.text # << >>
    /\ globals.sentenceBuffer # << >>
    /\ globals.lastBroadcastedText # << >>
    /\ globals.sentenceConfidence # ConfScale
    /\ globals.totalChunksSkipped = 0

\* C19, as stated: when the STT returns for a window the text it returned
\* for the window before, the second window emits nothing and leaves
\* lastBroadcastedText and sentenceBuffer as they were.
SameAnswerAgain == Transcribed /\ fn.previous = <<fn.response>>

C19_AsStated ==
    SameAnswerAgain =>
        /\ result.value = << >>
        /\ globals.lastBroadcastedText = fn.before.lastBroadcastedText
        /\ globals.sentenceBuffer = fn.before.sentenceBuffer

\* ---------------------------------------------------------------------------
\* C20

\* The info statuses sent for window seq of track i
InfoStatuses(i, seq) ==
    {k \in 1..Len(statusLog) : statusLog[k] = [track |-> i, seq |-> seq, level |-> "info"]}

\* Track i has nothing in flight: every frame it received is dealt with
Drained(i) == handlers[i] = << >>

\* C20: with vadSensitivity > 0, a subscription whose input was all zeros
\* never calls the STT service, has nothing emitted, and sends exactly one
\* status envelope of level info for each window it closed (at most one while
\* a frame is still being handled, one each when none is).
C20_AsStated ==
    env.vadSensitivityPct > 0 =>
        \A i \in 1..Len(contexts) :
            contexts[i].level = 0 =>
                /\ \A k \in 1..Len(sttLog) : sttLog[k].track # i
                /\ \A k \in 1..Len(sent) : sent[k].track # i
                /\ \A seq \in 1..Len(closed[i]) :
                       /\ Cardinality(InfoStatuses(i, seq)) <= 1
                       /\ Drained(i) => Cardinality(InfoStatuses(i, seq)) = 1

\* The same with the windows an escaped error left unprocessed set aside:
\* every window of an all-zero subscription that processChunk was called for
\* got its one info status and no STT call.
C20_SilentWindowRejected ==
    env.vadSensitivityPct > 0 =>
        \A i \in 1..Len(contexts) :
            contexts[i].level = 0 =>
                /\ \A k \in 1..Len(sttLog) : sttLog[k].track # i
                /\ \A k \in 1..Len(sent) : sent[k].track # i
                /\ \A seq \in 1..Len(closed[i]) :
                       Cardinality(InfoStatuses(i, seq)) <= 1
                /\ \A a \in 1..Len(handlers[i]) :
                       handlers[i][a].pc # "done" =>
                           Cardinality(InfoStatuses(i, handlers[i][a].chunks[1].seq)) = 1


\* ---------------------------------------------------------------------------
\* C21, C22

\* Window seq of track i was handed to processChunk: to the STT service, or
\* judged silent
Started(i, seq) ==
    \/ \E k \in 1..Len(sttLog) : sttLog[k] = [track |-> i, seq |-> seq]
    \/ InfoStatuses(i, seq) # {}

\* Window seq of track i is held by a frame that is still being handled
Pending(i, seq) ==
    \E a \in 1..Len(handlers[i]) : \E k \in 1..Len(handlers[i][a].chunks) :
        handlers[i][a].chunks[k].seq = seq

\* Handler h waits for the error status of a rejected STT call
SttFailed(h) == h.pc = "errStatus" /\ h.error = "stt"

\* The step in which the STT call of handler (i, a) rejects
SttFails(i, a) ==
    /\ handlers[i][a].pc = "stt"
    /\ handlers'[i][a].pc = "errStatus"

TextState(g) == <<g.lastBroadcastedText, g.sentenceBuffer, g.transcriptHistory>>

\* Handler (i, a) goes on from its error status to the frame's next window
GoesOn(i, a) ==
    /\ Len(handlers'[i]) >= a
    /\ handlers'[i][a].chunks = handlers[i][a].chunks
    /\ handlers'[i][a].pc \in {"errStatus", "delay"}

\* C21: a window whose STT call failed is dropped and not retried: the step
\* of the failure calls broadcastStatus with level error and leaves
\* emittedHistory, sentenceBuffer and recentSegments as they were, no window
\* is handed to the STT service twice, no transcript envelope is sent for the
\* failed window, and the handler goes on to the next window of the frame.
C21_AsStated ==
    /\ [](\A k, m \in 1..Len(sttLog) : sttLog[k] = sttLog[m] => k = m)
    /\ [](\A i \in 1..Len(handlers) : \A a \in 1..Len(handlers[i]) :
             SttFailed(handlers[i][a]) =>
                 \A k \in 1..Len(sent) :
                     ~(sent[k].track = i /\ sent[k].seq = handlers[i][a].chunks[1].seq))
    /\ [][\A i \in 1..Len(handlers) : \A a \in 1..Len(handlers[i]) :
             /\ SttFails(i, a) => /\ TextState(globals') = TextState(globals)
                                  /\ sent' = sent
             /\ SttFailed(handlers[i][a]) /\ Len(handlers[i][a].chunks) > 1
                    => GoesOn(i, a)]_vars

\* C22: no failure escapes processChunk, so every window a frame closed is
\* handed to processChunk in turn: it was started, or the frame that closed
\* it is still being handled.
C22_AsStated ==
    \A i \in 1..Len(closed) : \A seq \in 1..Len(closed[i]) :
        Started(i, seq) \/ Pending(i, seq)


\* ---------------------------------------------------------------------------
\* C23

\* Handler h waits for the error status of a failed correction request
CorrectionFailed(h) == h.pc = "errStatus" /\ h.error = "correction"

\* C23: a failure of the correction service does not block the transcript
\* path: the transcript envelope of the batch is with the room already,
\* no envelope is ever taken back, the error status is called for, and the
\* handler goes on to the next window of the frame.
C23_AsStated ==
    /\ [](\A i \in 1..Len(handlers) : \A a \in 1..Len(handlers[i]) :
             CorrectionFailed(handlers[i][a]) =>
                 \E k \in 1..Len(sent) :
                     /\ sent[k].track = i
                     /\ sent[k].seq = handlers[i][a].chunks[1].seq
                     /\ sent[k].segments = handlers[i][a].segments)
    /\ [][/\ Len(sent') >= Len(sent)
          /\ SubSeq(sent', 1, Len(sent)) = sent
          /\ \A i \in 1..Len(handlers) : \A a \in 1..Len(handlers[i]) :
                CorrectionFailed(handlers[i][a]) /\ Len(handlers[i][a].chunks) > 1
                    => GoesOn(i, a)]_vars


\* ---------------------------------------------------------------------------
\* C24 (checked under SpecChunk)

\* C24: every segment transcribeChunk returns, and every segment kept in
\* transcriptHistory, carries isFinal = true, revision = 0 and source = stt.
C24_SegmentsFinalUnrevisedStt ==
    \A seg \in Range(globals.transcriptHistory)
               \cup (IF Transcribed THEN Range(result.value) ELSE {}) :
        /\ seg.isFinal = TRUE
        /\ seg.revision = 0
        /\ seg.source = "stt"

\* A window has returned a segment, and an earlier one is in the history.
C24_Witness ==
    /\ Transcribed
    /\ Len(result.value) = 1
    /\ Len(globals.transcriptHistory) >= 2


(***************************************************************************)
(* SpecRecent: one track whose every window brings a new sentence, for as  *)
(* many windows as it takes to fill transcriptHistory beyond its 40        *)
(* segments.                                                               *)
(***************************************************************************)
MaxWindows == 42

\* The answer for the n-th window: a sentence of one word of n letters
NthResponse(n) == [text |-> Repeat(<<"b">>, n) \o <<".">>, segments |-> << >>]

TranscribeNthWindow == TranscribeWithin({NthResponse(room.inputs + 1)}, MaxWindows)

ResetBetweenManyWindows == ResetWithin(MaxWindows)

NextRecent == TranscribeNthWindow \/ ResetBetweenManyWindows

SpecRecent == InitChunk /\ [][NextRecent]_vars

\* The last n items of a list, or all of them when it has fewer
LastItems(list, n) ==
    LET kept == IF Len(list) < n THEN Len(list) ELSE n
    IN  [k \in 1..kept |-> list[Len(list) - kept + k]]

\* C25: transcriptHistory never holds more than 40 segments; after a window
\* it holds the latest 40 of what it held before followed by what the window
\* emitted; the context of a correction request is the last 10 items of it
\* at most.
C25_RecentCappedContextCapped ==
    /\ Len(globals.transcriptHistory) <= 40
    /\ Transcribed =>
          /\ globals.transcriptHistory =
                 LastItems(fn.before.transcriptHistory \o result.value, 40)
          /\ Len(fn.context) <= 10
          /\ result.value # << >> =>
                 fn.context = LastItems(globals.transcriptHistory, 10)

\* A window emits when transcriptHistory is full: the oldest segment goes.
C25_Witness ==
    /\ Transcribed
    /\ Len(fn.before.transcriptHistory) = 40
    /\ result.value # << >>
    /\ globals.transcriptHistory[1] = fn.before.transcriptHistory[2]
    /\ Len(fn.context) = 10


\* ---------------------------------------------------------------------------
\* C26 (checked under SpecWin)

\* C26: the cursor is between 0 and the ring capacity N in every state, also
\* inside a call and after a throw; when a call has returned with
\* strideSamples >= 1 the cursor is below N, so that no full window waits
\* for the next call.
C26_CursorWithinRing ==
    /\ 0 <= win.cursor
    /\ win.cursor <= Len(win.heap[RingId])
    /\ Len(win.heap[RingId]) = windowSamples(config)
    /\ (win.pc = "return" /\ strideSamples(config) >= 1) =>
           win.cursor < windowSamples(config)

\* A second call has returned after emitting, with the ring one sample short
\* of a window.
C26_Witness ==
    /\ win.pc = "return"
    /\ calls = 2
    /\ callStart.cursor > 0
    /\ Len(win.outputs) >= 2
    /\ strideSamples(config) >= 1
    /\ win.cursor = windowSamples(config) - 1


\* ---------------------------------------------------------------------------
\* C27 (checked under SpecChunk)

\* C27, as stated: the normalized text a window emits does not contain the
\* last 200 characters of the normalized lastBroadcastedText as it stood
\* before the window (a history that is still empty puts no demand).
C27_AsStated ==
    (Transcribed /\ result.value # << >> /\ fn.before.lastBroadcastedText # << >>) =>
        ~includes(normalize(result.value[1].text),
                  sliceLast(normalize(fn.before.lastBroadcastedText), 200))


\* ---------------------------------------------------------------------------
\* C28

\* The stream loop of track i has a frame dropped for its channel layout
FrameDropped(i) == contexts'[i].rejected > contexts[i].rejected

\* The counters the worker keeps
Counters(g) == <<g.totalChunksProcessed, g.totalChunksSkipped>>

\* C28, as stated: when a frame is dropped for its channel layout, the ring,
\* the cursor and the next-window timestamp of its track and the text state
\* of the process stay as they were, one of the worker's counters counts the
\* drop, and the track can take its next frame.
C28_AsStated ==
    [][\A i \in 1..Len(contexts) :
          FrameDropped(i) =>
              /\ contexts'[i].state = contexts[i].state
              /\ contexts'[i].nextTimestampMs = contexts[i].nextTimestampMs
              /\ TextState(globals') = TextState(globals)
              /\ contexts'[i].streaming /\ handlers'[i] = << >>
              /\ Counters(globals') # Counters(globals)]_vars

\* The same without the count: a dropped frame changes nothing but the
\* number of frames the track has had, also with the other track at work.
C28_DroppedFrameLeavesNoTrace ==
    [][\A i \in 1..Len(contexts) :
          FrameDropped(i) =>
              /\ contexts' = [contexts EXCEPT ![i].frames = @ + 1,
                                              ![i].rejected = @ + 1]
              /\ contexts'[i].streaming /\ handlers'[i] = << >>
              /\ UNCHANGED <<trackContexts, handlers, globals, sent, closed>>]_vars


(***************************************************************************)
(* SpecRate: the rate limiter of the dev-server (rateLimit.ts).  Time is   *)
(* counted in units of 20 s, so that the default window of 60000 ms is 3   *)
(* units; the limits are configured low.                                   *)
(***************************************************************************)
MaxClock == 8          \* the clock runs to this
MaxRequests == 5       \* requests per behaviour

RateWindowMs == 3      \* RATE_LIMIT_WINDOW_MS (default 60000 ms)
DefaultRateLimit == 2  \* DEFAULT_RATE_LIMIT (default 60)
CleanupAge == 3        \* the 60000 ms of the cleanup, lines 59-66

\* req.apiKeyData?.rate_limit ?? defaultLimit (line 19): key_b carries its
\* own limit, key_a none
limitOf(id) == IF id = "key_b" THEN 1 ELSE DefaultRateLimit

\* The middleware (lines 16-54): the store it leaves, the status of the
\* answer (200: passed on with next()), and the window the request fell in
rateLimiter(store, id, now) ==
    LET old == store[id]
        current == IF old = NoEntry \/ now >= old.resetAt
                   THEN [count |-> 0, resetAt |-> now + RateWindowMs]
                   ELSE old
        entry == [current EXCEPT !.count = @ + 1]
    IN  [store |-> [store EXCEPT ![id] = entry],
         status |-> IF entry.count > limitOf(id) THEN 429 ELSE 200,
         resetAt |-> entry.resetAt]

InitRate ==
    /\ WinIdle
    /\ ExtIdle
    /\ PipeIdle
    /\ RateIdle
    /\ AppIdle

\* A request of an API key passes the middleware.
RequestArrives ==
    \E id \in ApiKeys :
        /\ Len(served) < MaxRequests
        /\ \E r \in {rateLimiter(rateLimitStore, id, clock)} :
             /\ rateLimitStore' = r.store
             /\ served' = Append(served, [id |-> id, at |-> clock,
                                          status |-> r.status, resetAt |-> r.resetAt])
        /\ UNCHANGED <<clock, winVars, extVars, pipeVars, appVars>>

\* Time passes.
ClockTicks ==
    /\ clock < MaxClock
    /\ clock' = clock + 1
    /\ UNCHANGED <<rateLimitStore, served, winVars, extVars, pipeVars, appVars>>

\* The periodic cleanup (lines 59-66) deletes the entries that expired a
\* minute ago or earlier.
CleanupRuns ==
    /\ \E id \in ApiKeys :
          /\ rateLimitStore[id] # NoEntry
          /\ clock >= rateLimitStore[id].resetAt + CleanupAge
    /\ rateLimitStore' =
          [id \in ApiKeys |->
              IF /\ rateLimitStore[id] # NoEntry
                 /\ clock >= rateLimitStore[id].resetAt + CleanupAge
              THEN NoEntry ELSE rateLimitStore[id]]
    /\ UNCHANGED <<clock, served, winVars, extVars, pipeVars, appVars>>

NextRate == RequestArrives \/ ClockTicks \/ CleanupRuns

SpecRate == InitRate /\ [][NextRate]_vars

\* The requests of key id passed on at a time t with from <= t < from + length
AdmittedIn(id, from, length) ==
    {k \in 1..Len(served) :
        /\ served[k].id = id
        /\ served[k].status = 200
        /\ from <= served[k].at
        /\ served[k].at < from + length}

\* C29, as stated: for every key, no interval of windowMs holds more admitted
\* requests than the key's limit.
C29_AsStated ==
    \A id \in ApiKeys : \A from \in 0..MaxClock :
        Cardinality(AdmittedIn(id, from, RateWindowMs)) <= limitOf(id)

\* What the limiter does keep: of the requests that fall into one window of a
\* key (the windowMs from the first request after the last window ended), at
\* most limit are passed on and every further one is answered 429.
C29_AtMostLimitPerWindow ==
    \A id \in ApiKeys : \A k \in 1..Len(served) :
        served[k].id = id =>
            LET before == {j \in 1..k : /\ served[j].id = id
                                        /\ served[j].resetAt = served[k].resetAt}
            IN  (served[k].status = 200) <=> (Cardinality(before) <= limitOf(id))


\* The position in text where the last match of the sentence pattern ends
\* (0 without a match), by the scan of sentenceMatches
RECURSIVE lastMatchEnd(_, _, _)
lastMatchEnd(text, p, end) ==
    IF p > Len(text) THEN end
    ELSE LET terms == {i \in p..Len(text) : IsTerminator(text[i])}
         IN  IF terms = {} THEN end
             ELSE LET q == CHOOSE i \in terms : \A j \in terms : i <= j
                      after == {i \in q..Len(text) : ~IsTerminator(text[i])}
                      r == IF after = {} THEN Len(text)
                           ELSE (CHOOSE i \in after : \A j \in after : i <= j) - 1
                  IN  IF q > p /\ (r = Len(text) \/ IsSpace(text[r + 1]))
                      THEN lastMatchEnd(text, r + 1, r)
                      ELSE lastMatchEnd(text, p + 1, end)

RECURSIVE concatenation(_)
concatenation(parts) ==
    IF parts = << >> THEN << >> ELSE Head(parts) \o concatenation(Tail(parts))

SplitWithoutLoss ==
    LET matches == sentenceMatches(fn.text, 1, << >>)
    IN  /\ collapseWhitespace(result.value.completeSentences)
              = collapseWhitespace(trim(concatenation(matches)))
        /\ result.value.remainder
              = trim(sliceFrom(fn.text, lastMatchEnd(fn.text, 1, 0)))

\* C30, as stated: when a buffer with complete sentences is released,
\* completeSentences is the concatenation of the matched sentences (runs of
\* whitespace counted as one space) and the remainder is exactly the text
\* after the last matched sentence.
C30_AsStated == Released => SplitWithoutLoss

\* What the split does keep: it is as stated for the buffers of one or two
\* sentences that begin with their first sentence.
C30_UpToTwoSentencesSplit ==
    LET matches == sentenceMatches(fn.text, 1, << >>)
    IN  (/\ Released
         /\ Len(matches) <= 2
         /\ Len(concatenation(matches)) = lastMatchEnd(fn.text, 1, 0))
            => SplitWithoutLoss


(***************************************************************************)
(* C31: what is appended to the sentence buffer                            *)
(***************************************************************************)
\* combinedContext (line 1001) and newText (line 1004) of the window fn
\* describes
CombinedContext ==
    trim(fn.before.lastBroadcastedText \o <<" ">> \o fn.before.sentenceBuffer)

NewText ==
    IF trim(fn.response.text) = << >> THEN << >>
    ELSE extractNewText(CombinedContext, trim(fn.response.text))

\* The globals and segments the window leaves when text is what lines
\* 1022-1089 receive as the text to append
OutcomeOf(text) ==
    LET t == keepActualNewText(
                 [fn.before EXCEPT !.totalChunksProcessed = @ + 1],
                 fn.response, chunkMetadata(room.inputs), text)
    IN  [globals |-> pushHistory(t.globals, t.segments), segments |-> t.segments]

Outcome == [globals |-> globals, segments |-> result.value]

\* The number of leading words of text that repeat, case aside, the last
\* words of the context: the largest such number from 2 to 20, else 0
RepeatedLead(context, text) ==
    LET bufferWords == splitWhitespace(trim(context))
        chunkWords == splitWhitespace(trim(text))
        lengths == {i \in 2..Min(Min(Len(bufferWords), Len(chunkWords)), 20) :
                       toLowerCase(join(sliceLast(bufferWords, i)))
                           = toLowerCase(join(sliceTo(chunkWords, i)))}
    IN  IF context = << >> \/ lengths = {} THEN 0
        ELSE CHOOSE i \in lengths : \A j \in lengths : j <= i

WithoutRepeatedLead(context, text) ==
    IF RepeatedLead(context, text) = 0 THEN trim(text)
    ELSE join(sliceFrom(splitWhitespace(trim(text)), RepeatedLead(context, text)))

\* C31, as stated: for a window with non-empty extractor output, that
\* output is what is appended to the sentence buffer: the window leaves what
\* it would leave with no word removed after the extraction.
C31_AsStated ==
    (Transcribed /\ NewText # << >>) => Outcome = OutcomeOf(trim(NewText))

\* C31: for a window with non-empty extractor output, what is appended to
\* the sentence buffer (with a joining space) is the extractor's output
\* without its longest lead of 2 to 20 words that repeats, case aside, the
\* end of emittedHistory + sentenceBuffer; nothing else is removed.
C31_BufferedIsExtractWithoutRepeatedLead ==
    (Transcribed /\ NewText # << >>) =>
        Outcome = OutcomeOf(WithoutRepeatedLead(CombinedContext, NewText))

\* A window whose extractor output loses a repeated lead before it is
\* buffered
C31_Witness ==
    /\ Transcribed
    /\ NewText # << >>
    /\ RepeatedLead(CombinedContext, NewText) >= 2
    /\ globals.sentenceBuffer # fn.before.sentenceBuffer


(***************************************************************************)
(* C32: the correction request of a batch                                  *)
(***************************************************************************)
\* The transcript envelope of the window handler h of track i works on is
\* with the room
EnvelopeSent(i, h) ==
    \E k \in 1..Len(sent) :
        /\ sent[k].track = i
        /\ sent[k].seq = h.chunks[1].seq
        /\ sent[k].segments = h.segments

\* The correction request of handler h is with the correction service
CorrectionRequested(h) == h.pc = "correction"

\* C32, as stated: a correction request is made only after the transcript
\* envelope of its batch was broadcast and only for a batch with text (so
\* never for a window that emits nothing), and a batch with text whose
\* envelope was broadcast gets its correction request: the handler's next
\* step from the status of line 634 is the request.
C32_AsStated ==
    /\ [](\A i \in 1..Len(handlers) : \A a \in 1..Len(handlers[i]) :
             CorrectionRequested(handlers[i][a]) =>
                 /\ EnvelopeSent(i, handlers[i][a])
                 /\ hasText(handlers[i][a].segments))
    /\ [][\A i \in 1..Len(handlers) : \A a \in 1..Len(handlers[i]) :
             (/\ handlers[i][a].pc = "okStatus"
              /\ EnvelopeSent(i, handlers[i][a])
              /\ hasText(handlers[i][a].segments))
                 => /\ Len(handlers'[i]) >= a
                    /\ handlers'[i][a].pc \in {"okStatus", "correction"}]_vars

\* What holds in every behaviour: a correction request is made only after
\* the envelope of its batch was broadcast and only for a batch with text,
\* and every batch whose status send succeeds gets its request.
C32_RequestOnlyAfterEnvelope ==
    /\ [](\A i \in 1..Len(handlers) : \A a \in 1..Len(handlers[i]) :
             CorrectionRequested(handlers[i][a]) =>
                 /\ EnvelopeSent(i, handlers[i][a])
                 /\ hasText(handlers[i][a].segments))
    /\ [][\A i \in 1..Len(handlers) : \A a \in 1..Len(handlers[i]) :
             (/\ handlers[i][a].pc = "okStatus"
              /\ hasText(handlers[i][a].segments)
              /\ room.up)
                 => /\ Len(handlers'[i]) >= a
                    /\ handlers'[i][a].pc \in {"okStatus", "correction"}]_vars


(***************************************************************************)
(* SpecCap: the window library under any caller.  Between two calls the    *)
(* caller may pass another configuration, call again after an error, and   *)
(* call appendSamples itself, so that processSamples meets rings whose     *)
(* capacity is not that of its configuration and rings that are full.      *)
(***************************************************************************)
CallerAt == {"idle", "return", "throw", "append"}

CapCall == WinCallFrom(CallerAt)

\* The caller's next call will carry another configuration.
Reconfigure ==
    /\ win.pc \in CallerAt
    /\ calls < MaxCalls
    /\ \E cfg \in WinConfigs : cfg # config /\ config' = cfg
    /\ UNCHANGED <<win, emitted, calls, callStart, fed, extVars, pipeVars, rateVars, appVars>>

\* The caller invokes appendSamples (lines 65-77) with the next len samples.
DirectAppend ==
    /\ win.pc \in CallerAt
    /\ calls < MaxCalls
    /\ \E len \in 0..MaxFrameLen :
         LET samples == [i \in 1..len |-> fed + i]
             w == appendSamples([win EXCEPT !.pc = "append", !.error = "",
                                            !.samples = samples, !.outputs = << >>],
                                samples)
         IN  /\ win' = w
             /\ callStart' = [op |-> "appendSamples", cursor |-> win.cursor,
                              len |-> len, timestampMs |-> win.currentTimestamp]
             /\ fed' = fed + len
    /\ calls' = calls + 1
    /\ UNCHANGED <<config, emitted, extVars, pipeVars, rateVars, appVars>>

NextCap == CapCall \/ WinStep \/ Reconfigure \/ DirectAppend

SpecCap == InitWin /\ [][NextCap]_vars


\* The step is the entry of a processSamples call
ProcessSamplesEntered == calls' = calls + 1 /\ callStart'.op = "processSamples"

CapacityMismatch == Len(win.heap[RingId]) # windowSamples(config)

\* C33: every call of processSamples checks the ring's capacity against
\* floor(sampleRate * windowMs * channels / 1000): on a mismatch the call
\* fails with the capacity-mismatch error, with the ring, its cursor and the
\* chunks emitted so far as they were; without a mismatch it does not fail
\* with that error.
C33_CapacityCheckedOnEntry ==
    [][ProcessSamplesEntered =>
          IF CapacityMismatch
          THEN /\ win'.pc = "throw"
               /\ win'.error = "Sliding window state capacity mismatch"
               /\ win'.heap = win.heap
               /\ win'.cursor = win.cursor
               /\ win'.outputs = << >>
               /\ emitted' = emitted
          ELSE /\ win'.pc = "loop"
               /\ win'.error = ""]_vars

\* The second call meets a ring that holds samples and whose capacity is not
\* that of the configuration passed, and fails.
C33_Witness ==
    /\ calls = 2
    /\ callStart.op = "processSamples"
    /\ callStart.len > 0
    /\ CapacityMismatch
    /\ win.pc = "throw"
    /\ win.error = "Sliding window state capacity mismatch"
    /\ win.cursor > 0


\* The step is a call of appendSamples by the caller
AppendSamplesCalled == calls' = calls + 1 /\ callStart'.op = "appendSamples"

Overflowed(w) == w.pc = "throw" /\ w.error = "Sliding window overflow"

\* C34: appendSamples fails with the overflow error, ring and cursor as they
\* were, whenever it is given more samples than the ring has room for, and
\* otherwise stores the samples at the cursor; and no step of processSamples
\* ends in that error, whatever the input length and the ring it is given.
C34_OverflowOnlyFromDirectAppend ==
    [][/\ AppendSamplesCalled =>
             IF callStart'.len > Len(win.heap[RingId]) - win.cursor
             THEN /\ Overflowed(win')
                  /\ win'.heap = win.heap
                  /\ win'.cursor = win.cursor
             ELSE /\ win'.pc = "append"
                  /\ win'.cursor = win.cursor + callStart'.len
                  /\ \A k \in 1..callStart'.len :
                         win'.heap[RingId][win.cursor + k] = win'.samples[k]
                  /\ \A k \in 1..win.cursor :
                         win'.heap[RingId][k] = win.heap[RingId][k]
       /\ (ProcessSamplesEntered \/ win.pc \in {"loop", "inner"})
             => ~Overflowed(win')]_vars

\* A first call of processSamples took more samples than the ring has room
\* for and closed two windows; then appendSamples was given too many.
C34_Witness ==
    /\ calls = 2
    /\ Len(emitted) >= 2
    /\ callStart.op = "appendSamples"
    /\ callStart.len > Len(win.heap[RingId]) - win.cursor
    /\ win.cursor > 0
    /\ Overflowed(win)


(***************************************************************************)
(* C35: the samples of the k-th window.  The stream's samples are numbered *)
(* 1, 2, 3, ... (WinCall), so a sample's value is its place in the stream. *)
(***************************************************************************)
\* The samples the k-th chunk emitted carries (k = 1, 2, ...)
PayloadOf(k) == win.heap[emitted[k].chunk.payload]

\* C35: with 1 <= strideSamples <= N, the k-th window closed (k = 0, 1, ...)
\* carries the samples [k * strideSamples, k * strideSamples + N) of the
\* stream, however the stream was split into calls, so that consecutive
\* windows share N - strideSamples samples.
C35_WindowIsStreamSlice ==
    LET n == windowSamples(config)
        stride == strideSamples(config)
    IN  (1 <= stride /\ stride <= n) =>
            /\ \A k \in 1..Len(emitted) :
                   PayloadOf(k) = [m \in 1..n |-> (k - 1) * stride + m]
            /\ \A k \in 1..(Len(emitted) - 1) :
                   SubSeq(PayloadOf(k), stride + 1, n)
                       = SubSeq(PayloadOf(k + 1), 1, n - stride)

\* Two calls that do not end at a window's end close three windows that
\* overlap.
C35_Witness ==
    /\ strideSamples(config) < windowSamples(config)
    /\ calls = 2
    /\ win.pc = "return"
    /\ Len(emitted) >= 3
    /\ emitted[1].call = 1
    /\ emitted[Len(emitted)].call = 2
    /\ callStart.cursor > windowSamples(config) - strideSamples(config)


(***************************************************************************)
(* SpecStride: processSamples under the configurations the worker's        *)
(* environment schema accepts (STT_WINDOW_MS and STT_STRIDE_MS are any     *)
(* numbers, lines 81-82), among them strides of less than one sample.      *)
(***************************************************************************)
MaxOutputs == 8        \* chunks one call may emit in the model

\* strideSamples is 0 for a strideMs of 0 and for one below 1000 / sampleRate
ZeroStrideConfigs ==
    { [sampleRate |-> 1000, channels |-> 1, windowMs |-> 2, strideMs |-> 0],
      [sampleRate |-> 500, channels |-> 1, windowMs |-> 4, strideMs |-> 1] }

InitStride ==
    /\ ExtIdle
    /\ PipeIdle
    /\ RateIdle
    /\ AppIdle
    /\ config \in WinConfigs \cup ZeroStrideConfigs
    /\ win = IdleWin(config)
    /\ emitted = << >>
    /\ calls = 0
    /\ callStart = [op |-> "none", cursor |-> 0, len |-> 0, timestampMs |-> 0]
    /\ fed = 0

\* One pass of the loop, as long as the model follows the call
StrideStep ==
    /\ Len(win.outputs) < MaxOutputs
    /\ WinStep

NextStride == WinCall \/ StrideStep

SpecStride == InitStride /\ [][NextStride]_vars

\* What the two loops of processSamples test: the position in the code, the
\* offset into the input, the cursor and the ring's capacity
LoopControl(w) == <<w.pc, w.offset, w.cursor, Len(w.heap[RingId]), Len(w.samples)>>

\* Steps still to go, at most: four per sample not yet taken, two for a full
\* ring, two for the inner loop's last test and the outer loop's, one for the
\* outer loop's alone
LoopRank(w) ==
    4 * (Len(w.samples) - w.offset)
        + (IF w.cursor = Len(w.heap[RingId]) THEN 2 ELSE 0)
        + (IF w.pc = "inner" THEN 2 ELSE IF w.pc = "loop" THEN 1 ELSE 0)

\* C36, as stated: processSamples terminates for every accepted
\* configuration; so no pass of its loops leaves everything the loops test
\* as it was.
C36_AsStated ==
    [][win.pc \in {"loop", "inner"} => LoopControl(win') # LoopControl(win)]_vars

\* What holds: with a stride of at least one sample every pass of the loops
\* lowers the number of steps still to go, so the call terminates.
C36_TerminatesWithPositiveStride ==
    [][(win.pc \in {"loop", "inner"} /\ strideSamples(config) >= 1)
          => /\ LoopRank(win') < LoopRank(win)
             /\ LoopRank(win') >= 0]_vars


(***************************************************************************)
(* SpecAuth: apiKeyAuth of the dev-server (userAuth.ts) and the revocation *)
(* of keys (portal.ts, DELETE /keys/:id).  Time is counted in units of     *)
(* 100 s, so that CACHE_TTL is 3 units.  A call of apiKeyAuth that misses  *)
(* the cache awaits the database twice: the select, then the update of     *)
(* last_used_at.                                                           *)
(***************************************************************************)
MaxAuthRequests == 3   \* requests per behaviour
MaxAuthClock == 5      \* the clock runs to this

CacheTtl == 3          \* CACHE_TTL, 5 minutes

\* The cache entry of key is live (line 64)
CacheHit(key) == auth.cache[key] # 0 /\ auth.cache[key] > clock

Answer(key, status, arrivedRevoked, cached) ==
    [key |-> key, status |-> status, revoked |-> arrivedRevoked, cached |-> cached]

\* A request with a well-formed key arrives (lines 47-69): answered from the
\* cache, or the select is sent.
AuthRequestArrives ==
    \E key \in AuthKeys :
        /\ Len(auth.log) + Len(auth.calls) < MaxAuthRequests
        /\ IF CacheHit(key)
           THEN auth' = [auth EXCEPT
                    !.log = Append(@, Answer(key, 200, ~auth.active[key], TRUE))]
           ELSE auth' = [auth EXCEPT
                    !.calls = Append(@, [key |-> key, pc |-> "select",
                                         revoked |-> ~auth.active[key],
                                         data |-> FALSE])]
        /\ UNCHANGED <<client, accumulator, emitter, winVars, extVars, pipeVars, rateVars>>

\* The database runs the select of lines 72-77: a row, if the key is active.
SelectRuns ==
    \E c \in 1..Len(auth.calls) :
        /\ auth.calls[c].pc = "select"
        /\ auth' = [auth EXCEPT !.calls[c].pc = "selected",
                                !.calls[c].data = auth.active[auth.calls[c].key]]
        /\ UNCHANGED <<client, accumulator, emitter, winVars, extVars, pipeVars, rateVars>>

Without(pending, c) == SubSeq(pending, 1, c - 1) \o SubSeq(pending, c + 1, Len(pending))

\* The select settles (lines 79-94): 401 without a row; else the row is
\* cached and the update of last_used_at is sent.
SelectDone ==
    \E c \in 1..Len(auth.calls) :
        LET call == auth.calls[c]
        IN  /\ call.pc = "selected"
            /\ IF call.data
               THEN auth' = [auth EXCEPT !.cache[call.key] = clock + CacheTtl,
                                         !.calls[c].pc = "update"]
               ELSE auth' = [auth EXCEPT
                        !.calls = Without(@, c),
                        !.log = Append(@, Answer(call.key, 401, call.revoked, FALSE))]
            /\ UNCHANGED <<client, accumulator, emitter, winVars, extVars, pipeVars, rateVars>>

\* The update settles (lines 90-98): the request is passed on with next().
UpdateLastUsedDone ==
    \E c \in 1..Len(auth.calls) :
        LET call == auth.calls[c]
        IN  /\ call.pc = "update"
            /\ auth' = [auth EXCEPT
                   !.calls = Without(@, c),
                   !.log = Append(@, Answer(call.key, 200, call.revoked, FALSE))]
            /\ UNCHANGED <<client, accumulator, emitter, winVars, extVars, pipeVars, rateVars>>

\* DELETE /keys/:id succeeds (portal.ts lines 318-328): is_active = false.
KeyRevoked ==
    \E key \in AuthKeys :
        /\ auth.active[key]
        /\ auth' = [auth EXCEPT !.active[key] = FALSE]
        /\ UNCHANGED <<client, accumulator, emitter, winVars, extVars, pipeVars, rateVars>>

\* The periodic cleanup of the cache (lines 115-122)
CacheCleanupRuns ==
    /\ \E key \in AuthKeys : auth.cache[key] # 0 /\ auth.cache[key] <= clock
    /\ auth' = [auth EXCEPT !.cache =
                   [key \in AuthKeys |-> IF @[key] <= clock THEN 0 ELSE @[key]]]
    /\ UNCHANGED <<client, accumulator, emitter, winVars, extVars, pipeVars, rateVars>>

\* Time passes.
AuthClockTicks ==
    /\ clock < MaxAuthClock
    /\ clock' = clock + 1
    /\ UNCHANGED <<rateLimitStore, served, appVars, winVars, extVars, pipeVars>>

InitAuth == WinIdle /\ ExtIdle /\ PipeIdle /\ RateIdle /\ AppIdle

NextAuth ==
    \/ AuthRequestArrives
    \/ SelectRuns
    \/ SelectDone
    \/ UpdateLastUsedDone
    \/ KeyRevoked
    \/ CacheCleanupRuns
    \/ AuthClockTicks

SpecAuth == InitAuth /\ [][NextAuth]_vars

\* C37, as stated: a request that arrives with a key revoked before is
\* answered 401, also while a cache entry made before the revocation lives.
C37_AsStated ==
    \A k \in 1..Len(auth.log) : auth.log[k].revoked => auth.log[k].status = 401

\* What holds: a request with a revoked key passes only on a live cache
\* entry; once the database is asked, the key is rejected.
C37_RevokedKeyPassesOnlyFromCache ==
    \A k \in 1..Len(auth.log) :
        (auth.log[k].revoked /\ ~auth.log[k].cached) => auth.log[k].status = 401


(***************************************************************************)
(* SpecClient: one ZypherusClient under concurrent calls of connect,       *)
(* startRecording and stopRecording (client.ts).  A call runs from await   *)
(* to await; the Room reports connecting when room.connect is called and   *)
(* its state when the call settles, and the client's listener copies that  *)
(* into connectionState.                                                   *)
(***************************************************************************)
MaxClientCalls == 3    \* calls per behaviour

\* The guard of connect (line 105)
AlreadyConnecting(cl) == cl.room # 0 /\ cl.connectionState # "disconnected"

NewCall(cl, call) == [cl EXCEPT !.calls = Append(@, call), !.started = @ + 1]

EndCall(cl, c) == [cl EXCEPT !.calls = Without(@, c)]

\* updateRecording (lines 201-210)
updateRecording(cl, recording) == [cl EXCEPT !.recording = recording]

\* startRecording from line 158 to its await of createLocalAudioTrack
startRecordingResume(cl, c) ==
    IF cl.room = 0 \/ cl.micTrack # 0 THEN EndCall(cl, c)
    ELSE [cl EXCEPT !.calls[c].pc = "create"]

\* connect() is called and passes its guard: it awaits the token provider.
ConnectCalled ==
    /\ client.started < MaxClientCalls
    /\ ~AlreadyConnecting(client)
    /\ client' = NewCall(client, [op |-> "connect", pc |-> "token", room |-> 0,
                                  track |-> 0])
    /\ UNCHANGED <<auth, accumulator, emitter, winVars, extVars, pipeVars, rateVars>>

\* The token provider settles (lines 110-121): a Room is created, becomes
\* this.room, gets the listeners, and room.connect is called.
TokenDone ==
    \E c \in 1..Len(client.calls) :
        /\ client.calls[c].pc = "token"
        /\ client' = [client EXCEPT
               !.rooms = Append(@, [state |-> "connecting", listening |-> TRUE]),
               !.room = Len(client.rooms) + 1,
               !.connectionState = "connecting",
               !.calls[c].pc = "connect",
               !.calls[c].room = Len(client.rooms) + 1]
        /\ UNCHANGED <<auth, accumulator, emitter, winVars, extVars, pipeVars, rateVars>>

\* room.connect settles.  Resolved (line 122): connectionState is the
\* room's.  Rejected (lines 123-127): the listeners are taken off,
\* this.room is cleared and the error thrown on, through startRecording too.
ConnectDone ==
    \E c \in 1..Len(client.calls), ok \in BOOLEAN :
        LET call == client.calls[c]
        IN  /\ call.pc = "connect"
            /\ IF ok
               THEN client' =
                      LET cl == [client EXCEPT
                                    !.rooms[call.room].state = "connected",
                                    !.connectionState = "connected"]
                      IN  IF call.op = "connect" THEN EndCall(cl, c)
                          ELSE startRecordingResume(cl, c)
               ELSE client' =
                      EndCall([client EXCEPT
                                  !.rooms[call.room] =
                                      [state |-> "disconnected", listening |-> FALSE],
                                  !.connectionState = "disconnected",
                                  !.room = 0], c)
            /\ UNCHANGED <<auth, accumulator, emitter, winVars, extVars, pipeVars, rateVars>>

\* startRecording() is called (lines 154-166): it calls connect unless the
\* room is connected, and then awaits; else it goes on to create the track.
StartRecordingCalled ==
    /\ client.started < MaxClientCalls
    /\ client' =
         IF client.room = 0 \/ client.connectionState # "connected"
         THEN NewCall(client, [op |-> "startRecording",
                               pc |-> IF AlreadyConnecting(client)
                                      THEN "connectReturned" ELSE "token",
                               room |-> 0, track |-> 0])
         ELSE IF client.micTrack # 0 THEN [client EXCEPT !.started = @ + 1]
         ELSE NewCall(client, [op |-> "startRecording", pc |-> "create",
                               room |-> 0, track |-> 0])
    /\ UNCHANGED <<auth, accumulator, emitter, winVars, extVars, pipeVars, rateVars>>

\* The await of a connect() that returned at line 106 settles.
ConnectReturned ==
    \E c \in 1..Len(client.calls) :
        /\ client.calls[c].pc = "connectReturned"
        /\ client' = startRecordingResume(client, c)
        /\ UNCHANGED <<auth, accumulator, emitter, winVars, extVars, pipeVars, rateVars>>

\* createLocalAudioTrack settles (lines 166-167): publishTrack is called on
\* this.room, which throws when the room is gone.
CreateDone ==
    \E c \in 1..Len(client.calls) :
        /\ client.calls[c].pc = "create"
        /\ client' =
             LET cl == [client EXCEPT
                           !.tracks = Append(@, [published |-> 0, everPublished |-> FALSE,
                                                 stopped |-> FALSE])]
             IN  IF client.room = 0 THEN EndCall(cl, c)
                 ELSE [cl EXCEPT !.calls[c].pc = "publish",
                                 !.calls[c].room = client.room,
                                 !.calls[c].track = Len(cl.tracks)]
        /\ UNCHANGED <<auth, accumulator, emitter, winVars, extVars, pipeVars, rateVars>>

\* publishTrack settles (lines 167-169): the track is published in the room
\* it was handed to and becomes micTrack.
PublishDone ==
    \E c \in 1..Len(client.calls) :
        LET call == client.calls[c]
        IN  /\ call.pc = "publish"
            /\ client' = EndCall(updateRecording(
                             [client EXCEPT
                                 !.tracks[call.track].published = call.room,
                                 !.tracks[call.track].everPublished = TRUE,
                                 !.micTrack = call.track], TRUE), c)
            /\ UNCHANGED <<auth, accumulator, emitter, winVars, extVars, pipeVars, rateVars>>

\* stopRecording() is called (lines 172-187); it has no await.  The track
\* is unpublished from this.room's participant and stopped.
StopRecordingCalled ==
    /\ client.started < MaxClientCalls
    /\ client' =
         IF client.micTrack = 0 \/ client.room = 0
         THEN [updateRecording(client, FALSE) EXCEPT !.started = @ + 1]
         ELSE [updateRecording(client, FALSE) EXCEPT
                  !.started = @ + 1,
                  !.micTrack = 0,
                  !.tracks[client.micTrack] =
                      [published |-> IF @.published = client.room THEN 0
                                     ELSE @.published,
                       everPublished |-> @.everPublished,
                       stopped |-> TRUE]]
    /\ UNCHANGED <<auth, accumulator, emitter, winVars, extVars, pipeVars, rateVars>>

InitClient == WinIdle /\ ExtIdle /\ PipeIdle /\ RateIdle /\ AppIdle

NextClient ==
    \/ ConnectCalled
    \/ TokenDone
    \/ ConnectDone
    \/ StartRecordingCalled
    \/ ConnectReturned
    \/ CreateDone
    \/ PublishDone
    \/ StopRecordingCalled

SpecClient == InitClient /\ [][NextClient]_vars

ConnectedRooms == {r \in 1..Len(client.rooms) : client.rooms[r].state = "connected"}

PublishedTracks == {t \in 1..Len(client.tracks) : client.tracks[t].published # 0}

\* C38, as stated: under any interleaving of the calls at most one Room is
\* connected, at most one microphone track is published, and every track
\* the client published is the current micTrack or was unpublished and
\* stopped.
C38_AsStated ==
    /\ Cardinality(ConnectedRooms) <= 1
    /\ Cardinality(PublishedTracks) <= 1
    /\ \A t \in 1..Len(client.tracks) :
           client.tracks[t].everPublished =>
               \/ client.micTrack = t
               \/ client.tracks[t].published = 0 /\ client.tracks[t].stopped

\* ---------------------------------------------------------------------
\* TranscriptAccumulator (aggregators.ts): batches of segments are ingested
\* one after the other; ingest is synchronous, so a batch is one step.
\* ---------------------------------------------------------------------

MaxRevision == 1

MaxBatch == 2

MaxIngests == 2

\* The segments a batch may carry.  A segment id names one window of audio,
\* so its start time comes with the id; s2 is the earlier window.
AccStartMs == [id \in AccIds |-> IF id = "s1" THEN 1000 ELSE 0]

AccTexts == {<<" ">>, <<"a">>, <<"b">>}

AccSegments ==
    {[id |-> i, startMs |-> AccStartMs[i], revision |-> r, isFinal |-> f, text |-> t] :
        i \in AccIds, r \in 0..MaxRevision, f \in BOOLEAN, t \in AccTexts}

AccBatches == UNION {[1..n -> AccSegments] : n \in 0..MaxBatch}

\* The state of one ingest call: the two maps, the mutated flag and the
\* overwrites made so far.
IngestStart(acc) ==
    [finalSegments |-> acc.finalSegments, pendingSegments |-> acc.pendingSegments,
     mutated |-> FALSE, replaced |-> << >>]

\* Map.delete of lines 19, 24 and 39: mutated is set when the id was there
mapDelete(st, which, id) ==
    IF st[which][id] = NoSegment
    THEN st
    ELSE [st EXCEPT ![which][id] = NoSegment, !.mutated = TRUE]

Overwrite(which, existing, segment) ==
    [id |-> segment.id, collection |-> which,
     from |-> existing.revision, to |-> segment.revision]

\* lines 30-34 and 45-49: the segment is stored unless the stored one has a
\* higher revision and the same text
mapSet(st, which, segment) ==
    LET existing == st[which][segment.id]
    IN  IF \/ existing = NoSegment
           \/ existing.revision <= segment.revision
           \/ existing.text # segment.text
        THEN [st EXCEPT ![which][segment.id] = segment,
                        !.mutated = TRUE,
                        !.replaced = IF existing = NoSegment
                                     THEN @
                                     ELSE Append(@, Overwrite(which, existing, segment))]
        ELSE st

\* lines 16-49: the body of the loop for one segment
ingestSegment(st, segment) ==
    IF segment.isFinal
    THEN IF trim(segment.text) = << >>
         THEN mapDelete(mapDelete(st, "pendingSegments", segment.id),
                        "finalSegments", segment.id)
         ELSE mapSet(mapDelete(st, "pendingSegments", segment.id),
                     "finalSegments", segment)
    ELSE IF trim(segment.text) = << >>
         THEN mapDelete(st, "pendingSegments", segment.id)
         ELSE mapSet(st, "pendingSegments", segment)

RECURSIVE ingestFrom(_, _, _)
ingestFrom(st, segments, k) ==
    IF k > Len(segments)
    THEN st
    ELSE ingestFrom(ingestSegment(st, segments[k]), segments, k + 1)

\* lines 69-80: the order of buildSentence.  The ids of a map are distinct
\* and the end time follows the start time, so the id decides last.
segmentBefore(a, b) ==
    IF a.startMs # b.startMs THEN a.startMs < b.startMs
    ELSE IF a.revision # b.revision THEN a.revision < b.revision
    ELSE a.id = "s1" /\ b.id = "s2"

RECURSIVE SeqOfSet(_)
SeqOfSet(S) ==
    IF S = {} THEN << >>
    ELSE LET x == CHOOSE y \in S : TRUE IN <<x>> \o SeqOfSet(S \ {x})

trimmedTexts(segments) == [k \in 1..Len(segments) |-> trim(segments[k].text)]

\* lines 67-85
buildSentence(map) ==
    LET stored == {map[id] : id \in AccIds} \ {NoSegment}
        sorted == SortSeq(SeqOfSet(stored), segmentBefore)
    IN  trim(join(SelectSeq(trimmedTexts(sorted), LAMBDA t : t # << >>)))

\* lines 52-59
ingestResult(st) ==
    IF ~st.mutated
    THEN NullResult
    ELSE [null |-> FALSE,
          rawFinalizedText |-> buildSentence(st.finalSegments),
          rawPendingText |-> buildSentence(st.pendingSegments)]

ingest(acc, batch) ==
    LET st == ingestFrom(IngestStart(acc), batch, 1)
    IN  [finalSegments |-> st.finalSegments, pendingSegments |-> st.pendingSegments,
         replaced |-> st.replaced, result |-> ingestResult(st),
         ingests |-> acc.ingests + 1]

Ingest ==
    /\ accumulator.ingests < MaxIngests
    /\ \E batch \in AccBatches : accumulator' = ingest(accumulator, batch)
    /\ UNCHANGED <<auth, client, emitter, winVars, extVars, pipeVars, rateVars>>

\* lines 62-65
AccReset ==
    /\ accumulator' = [accumulator EXCEPT !.finalSegments = EmptyMap,
                                          !.pendingSegments = EmptyMap,
                                          !.replaced = << >>,
                                          !.result = NullResult]
    /\ UNCHANGED <<auth, client, emitter, winVars, extVars, pipeVars, rateVars>>

InitAccum ==
    /\ WinIdle
    /\ ExtIdle
    /\ PipeIdle
    /\ RateIdle
    /\ AppIdle

NextAccum ==
    \/ Ingest
    \/ AccReset

SpecAccum == InitAccum /\ [][NextAccum]_vars

LoweredRevision == \E k \in 1..Len(accumulator.replaced) :
    accumulator.replaced[k].to < accumulator.replaced[k].from

InBothCollections == \E id \in AccIds :
    /\ accumulator.finalSegments[id] # NoSegment
    /\ accumulator.pendingSegments[id] # NoSegment

\* C39, as stated: ingest never replaces a stored segment by a segment of
\* the same id with a strictly lower revision, and after any sequence of
\* ingests no segment id is in both the final and the pending collection.
C39_AsStated ==
    /\ ~LoweredRevision
    /\ ~InBothCollections

\* ---------------------------------------------------------------------
\* TypedEventEmitter (src/unnamed/part_001 lines 3-44), for one event.  The
\* emitter is synchronous: an emit, with the emits its listeners make while
\* it runs, is one step.
\* ---------------------------------------------------------------------

MaxListeners == 3

MaxEmits == 2

\* A listener function of the application: a plain one returns, a
\* re-entrant one emits the event again the first time it is invoked.
Listener(isOnce, isReentrant) ==
    [once |-> isOnce, reentrant |-> isReentrant, fired |-> FALSE, invoked |-> 0]

\* lines 6-14: the function joins the bucket
on(em, l) ==
    IF \E k \in 1..Len(em.listeners) : em.listeners[k] = l
    THEN em
    ELSE [em EXCEPT !.listeners = Append(@, l)]

\* lines 24-31
off(em, l) ==
    [em EXCEPT !.listeners = SelectSeq(@, LAMBDA x : x # l)]

RECURSIVE emit(_)
RECURSIVE emitFrom(_, _, _)
RECURSIVE invokeListener(_, _)

\* lines 17-20 for a listener of once (the wrapper leaves the bucket and
\* calls the listener), the listener itself for one of on
invokeListener(em, l) ==
    LET left == IF em.registered[l].once THEN off(em, l) ELSE em
        called == [left EXCEPT !.registered[l].invoked = @ + 1]
    IN  IF called.registered[l].reentrant /\ ~called.registered[l].fired
        THEN emit([called EXCEPT !.registered[l].fired = TRUE])
        ELSE called

\* lines 36-38: the loop over the copy of the bucket
emitFrom(em, snapshot, k) ==
    IF k > Len(snapshot)
    THEN em
    ELSE emitFrom(invokeListener(em, snapshot[k]), snapshot, k + 1)

\* lines 33-39
emit(em) ==
    IF em.listeners = << >> THEN em ELSE emitFrom(em, em.listeners, 1)

\* lines 6-14: a new listener function is registered
register(em, isOnce, isReentrant) ==
    on([em EXCEPT !.registered = Append(@, Listener(isOnce, isReentrant))],
       Len(em.registered) + 1)

\* lines 6-14
EmitterOn ==
    /\ Len(emitter.registered) < MaxListeners
    /\ \E isReentrant \in BOOLEAN : emitter' = register(emitter, FALSE, isReentrant)
    /\ UNCHANGED <<auth, client, accumulator, winVars, extVars, pipeVars, rateVars>>

\* lines 16-22: the wrapper is registered
EmitterOnce ==
    /\ Len(emitter.registered) < MaxListeners
    /\ \E isReentrant \in BOOLEAN : emitter' = register(emitter, TRUE, isReentrant)
    /\ UNCHANGED <<auth, client, accumulator, winVars, extVars, pipeVars, rateVars>>

\* lines 13 and 24-31: the function returned by on or once is called
EmitterOff ==
    /\ \E l \in 1..Len(emitter.registered) : emitter' = off(emitter, l)
    /\ UNCHANGED <<auth, client, accumulator, winVars, extVars, pipeVars, rateVars>>

\* lines 33-39
EmitterEmit ==
    /\ emitter.emits < MaxEmits
    /\ emitter' = emit([emitter EXCEPT !.emits = @ + 1])
    /\ UNCHANGED <<auth, client, accumulator, winVars, extVars, pipeVars, rateVars>>

\* lines 41-43
EmitterRemoveAll ==
    /\ emitter' = [emitter EXCEPT !.listeners = << >>]
    /\ UNCHANGED <<auth, client, accumulator, winVars, extVars, pipeVars, rateVars>>

InitEmit == WinIdle /\ ExtIdle /\ PipeIdle /\ RateIdle /\ AppIdle

NextEmit ==
    \/ EmitterOn
    \/ EmitterOnce
    \/ EmitterOff
    \/ EmitterEmit
    \/ EmitterRemoveAll

SpecEmit == InitEmit /\ [][NextEmit]_vars

\* C40, as stated: a listener registered with once is invoked at most once,
\* whatever emits are made, the emits of other listeners of the event
\* during an emit included.
C40_AsStated ==
    \A l \in 1..Len(emitter.registered) :
        emitter.registered[l].once => emitter.registered[l].invoked <= 1

\* Without an emit made from inside a listener, a listener of once is
\* invoked at most once.
C40_OnceWithoutReentrantEmit ==
    (\A l \in 1..Len(emitter.registered) : ~emitter.registered[l].fired)
        => C40_AsStated

====
